---- MODULE Spec2Model ----
(***************************************************************************)
(* Ledger node of abemlucas/my_blockchain (src/backend): the chain, the    *)
(* mempool, the balance map, the deployed contracts and the difficulty of  *)
(* one Blockchain object, driven by the control API (new_transaction,      *)
(* mine) and by the overlay handlers of P2PNetworkManager.                 *)
(*                                                                         *)
(* SHA-256 is modelled symbolically: a digest is the tuple of the data it  *)
(* was computed from, so two digests are equal exactly when their inputs   *)
(* are.  Amounts are integers counted in units of the transaction fee      *)
(* (0.001 coin).  In Spec every handler is one atomic action; SpecThreads  *)
(* splits new_block where the API thread can be preempted by the overlay   *)
(* thread: pending_block holds the block new_block has validated and not   *)
(* yet applied.  SpecGossip delivers envelopes through _process_message:   *)
(* seen_messages is the set of message ids it keeps and gossiped counts,   *)
(* for every message id, how often an envelope with that id was handled    *)
(* and forwarded.  peers is the peer table of the node and forwarded the   *)
(* set of peers to which the envelope received last was forwarded;         *)
(* SpecOverlay reads raw messages from the connections peers opened and    *)
(* starts from the peer tables a running node can have.  SpecNetwork is    *)
(* this node and a peer X running the same overlay code: sockets holds,    *)
(* for every open connection, what was written towards each end and not    *)
(* read yet, remote_peers is the peer table of X.  SpecRetarget lets the   *)
(* node adopt chains mined at another difficulty before it mines, and      *)
(* SpecMultiSig follows multisig_tx, a multi-signature transaction object  *)
(* in the hands of a client of the library.  SpecContracts is the node     *)
(* with a client that deploys a contract and calls its functions,          *)
(* SpecMining the node on its own with /mine requested again and again,    *)
(* SpecMeanwhile the node with requests and gossip arriving while          *)
(* new_block runs, and SpecSigners the node with clients that name the     *)
(* genesis address as sender and sign, or do not sign, in every way.       *)
(***************************************************************************)
EXTENDS Integers, Sequences, FiniteSets, TLC

VARIABLES chain, current_transactions, state, contracts, heap,
          current_difficulty, now, calls, received, last, pending_block,
          seen_messages, gossiped, peers, forwarded, remote_peers, sockets,
          multisig_tx

vars == <<chain, current_transactions, state, contracts, heap,
          current_difficulty, now, calls, received, last, pending_block,
          seen_messages, gossiped,
                 peers, forwarded, remote_peers, sockets, multisig_tx>>

(***************************************************************************)
(* Bounds of the model.                                                    *)
(***************************************************************************)
MaxOps == 4
MaxReceived == 1
MaxTicks == 1
MaxZeros == 6
MaxCleanups == 4
MaxProcessed == 3

(***************************************************************************)
(* Program constants.                                                      *)
(***************************************************************************)
FeeUnitsPerCoin == 1000
transaction_fee == 1
GenesisSupply == 1000 * FeeUnitsPerCoin
MiningReward == 1 * FeeUnitsPerCoin
GenesisProof == 100
StartDifficulty == 4
adjustment_interval == 5
LengthLie == 100
target_block_time == 10
min_difficulty == 1
max_difficulty == 10
TickSeconds == 30
MessageRetention == 3600
CleanupInterval == 1800
CleanupRetry == 300

(***************************************************************************)
(* Addresses.  "0" is the coinbase sender; GenesisAddr is the address of   *)
(* the wallet made by _create_genesis_block; NodeId is blockchain.node_id. *)
(***************************************************************************)
Coinbase == "0"
GenesisAddr == "G"
NodeId == "N"
PeerGenesisAddr == "P"
ContractAddr == "C1"
NoAddr == "-"

Min(a, b) == IF a < b THEN a ELSE b
Max(a, b) == IF a > b THEN a ELSE b

(***************************************************************************)
(* Transactions.  One record shape serves the five variants and the plain  *)
(* dictionaries: form says whether the value is a Python object or a dict, *)
(* ttype is the variant ('transaction_type', or 'type' for the genesis     *)
(* dictionary), sigkey says whether the dictionary form has a 'signature'  *)
(* key.  sender holds sender / creator_address / caller_address, amount    *)
(* holds amount / initial_value / value.  sig abstracts the ECDSA check:   *)
(* "none" (no signature), "invalid", "sender" (signed with the key of the  *)
(* sender's wallet), "other" (a valid signature made with another key,     *)
(* embedded with that key's PEM).  For multisig, nsigs is the number of    *)
(* valid signatures and required the threshold.                            *)
(***************************************************************************)
BlankTx ==
  [form |-> "obj", ttype |-> "basic", sigkey |-> TRUE, sender |-> NoAddr,
   recipient |-> NoAddr, amount |-> 0, senders |-> <<>>, required |-> 0,
   nsigs |-> 0, sig |-> "none", unlock_time |-> 0, contract |-> NoAddr,
   fn |-> "-", p_key |-> "none", p_value |-> "none", p_recipient |-> NoAddr,
   p_amount |-> 0, timestamp |-> 0, txid |-> 0]

SecureTransaction(sender, recipient, amount, sig, id) ==
  [BlankTx EXCEPT !.sender = sender, !.recipient = recipient,
                  !.amount = amount, !.sig = sig, !.txid = id]

MultiSigTransaction(senders, recipient, amount, required, nsigs, id) ==
  [BlankTx EXCEPT !.ttype = "multisig", !.sigkey = FALSE, !.senders = senders,
                  !.recipient = recipient, !.amount = amount,
                  !.required = required, !.nsigs = nsigs, !.txid = id]

TimeLockTransaction(sender, recipient, amount, unlock_time, sig, id) ==
  [BlankTx EXCEPT !.ttype = "timelock", !.sender = sender,
                  !.recipient = recipient, !.amount = amount,
                  !.unlock_time = unlock_time, !.sig = sig, !.txid = id]

ContractDeployTransaction(creator, c, initial_value, sig, id) ==
  [BlankTx EXCEPT !.ttype = "contract_deploy", !.sender = creator,
                  !.contract = c, !.amount = initial_value, !.sig = sig,
                  !.txid = id]

ContractCallTransaction(caller, c, fn, pk, pv, pr, pa, value, sig, id) ==
  [BlankTx EXCEPT !.ttype = "contract_call", !.sender = caller,
                  !.contract = c, !.fn = fn, !.p_key = pk, !.p_value = pv,
                  !.p_recipient = pr, !.p_amount = pa, !.amount = value,
                  !.sig = sig, !.txid = id]

\* the dictionary built by hand in _create_genesis_block
GenesisTx(recipient, amount) ==
  [BlankTx EXCEPT !.form = "dict", !.ttype = "genesis", !.sigkey = FALSE,
                  !.sender = Coinbase, !.recipient = recipient,
                  !.amount = amount]

\* a plain dictionary {sender, recipient, amount, timestamp, transaction_id}
DictTx(sender, recipient, amount, id) ==
  [BlankTx EXCEPT !.form = "dict", !.sigkey = FALSE, !.sender = sender,
                  !.recipient = recipient, !.amount = amount, !.txid = id]

\* tx.to_dict() if hasattr(tx, 'to_dict') else tx
TxToDict(tx) == [tx EXCEPT !.form = "dict"]

\* hasattr(transaction, 'transaction_type')
HasTransactionType(tx) == tx.form = "obj" /\ tx.ttype # "basic"
\* hasattr(transaction, 'sender')
HasSenderAttr(tx) == tx.form = "obj" /\ tx.ttype \in {"basic", "timelock"}
\* 'sender' in transaction, for a dictionary
HasSenderKey(tx) == tx.ttype \in {"basic", "timelock", "genesis"}
\* isinstance(tx, dict) and 'type' in tx and tx['type'] == 'genesis'
IsGenesisDict(tx) == tx.form = "dict" /\ tx.ttype = "genesis"

\* SecureTransaction.from_dict: the result is always a plain
\* SecureTransaction; only sender, recipient, amount, timestamp,
\* transaction_id, signature and sender_public_key survive.
SecureFromDictOk(d) == HasSenderKey(d)
SecureFromDict(d) ==
  [BlankTx EXCEPT !.sender = d.sender, !.recipient = d.recipient,
                  !.amount = d.amount, !.sig = d.sig,
                  !.timestamp = d.timestamp, !.txid = d.txid]

\* verify_transaction of each class
VerifyTransaction(tx) ==
  CASE tx.ttype = "multisig" -> tx.nsigs >= tx.required
    [] tx.ttype = "timelock" ->
         /\ now >= tx.unlock_time
         /\ tx.sig # "none"
         /\ (tx.sender = Coinbase \/ tx.sig \in {"sender", "other"})
    [] tx.ttype \in {"contract_deploy", "contract_call"} ->
         tx.sig \in {"sender", "other"}
    [] OTHER ->
         /\ tx.sig # "none"
         /\ (tx.sender = Coinbase \/ tx.sig \in {"sender", "other"})

\* TimeLockTransaction.is_unlocked
IsUnlocked(tx) == now >= tx.unlock_time

(***************************************************************************)
(* Digests.                                                                *)
(***************************************************************************)
ZeroHash == <<"0">>
ForgedHash == <<"forged", "hash">>
ForgedRoot == <<"forged", "merkle", "root", "value">>
EmptyRoot == <<>>

RECURSIVE MerklePairs(_)
MerklePairs(level) ==
  IF Len(level) = 0 THEN <<>>
  ELSE <<<<"node", level[1], level[2]>>>> \o MerklePairs(SubSeq(level, 3, Len(level)))

RECURSIVE MerkleReduce(_)
MerkleReduce(level) ==
  IF Len(level) <= 1 THEN level
  ELSE LET padded == IF Len(level) % 2 # 0
                     THEN Append(level, level[Len(level)]) ELSE level
       IN  MerkleReduce(MerklePairs(padded))

\* EnhancedBlock.calculate_merkle_root
calculate_merkle_root(transactions) ==
  IF Len(transactions) = 0 THEN EmptyRoot
  ELSE MerkleReduce([i \in 1..Len(transactions) |->
                        <<"leaf", TxToDict(transactions[i])>>])[1]

\* EnhancedBlock.calculate_hash
calculate_hash(b) ==
  <<"H", b.index, b.timestamp, b.merkle_root, b.proof, b.previous_hash,
    b.nonce, b.difficulty, b.miner_address>>

\* number of leading "0" hex digits of sha256(last_hash ++ str(proof)):
\* a fixed table in which every count 0..MaxZeros occurs for every last_hash.
\* sha256("0100"), the digest of the genesis block's previous_hash and proof,
\* is 5e7b571a...: no leading zero; the table gives proof 100 no zero at all.
HashSalt(h) == IF Len(h) = 9 THEN h[2] ELSE 0
LeadingZeros(last_hash, proof) ==
  IF proof = GenesisProof THEN 0
  ELSE (proof + HashSalt(last_hash)) % (MaxZeros + 1)

\* Blockchain.valid_proof
valid_proof(last_hash, proof, difficulty) ==
  LeadingZeros(last_hash, proof) >= difficulty

\* Blockchain.proof_of_work: the first proof, counting from 0, that is valid
proof_of_work(last_hash, difficulty) ==
  CHOOSE p \in 0..MaxZeros :
    /\ valid_proof(last_hash, p, difficulty)
    /\ \A q \in 0..(p - 1) : ~valid_proof(last_hash, q, difficulty)

\* the last line of EnhancedBlock.__init__: self.hash = self.calculate_hash()
WithHash(b) == [b EXCEPT !.hash = calculate_hash(b)]

\* EnhancedBlock.__init__
EnhancedBlock(index, transactions, proof, previous_hash, miner_address, difficulty) ==
  WithHash([index |-> index, timestamp |-> now, transactions |-> transactions,
            proof |-> proof, previous_hash |-> previous_hash,
            miner_address |-> miner_address, difficulty |-> difficulty,
            nonce |-> 0, merkle_root |-> calculate_merkle_root(transactions),
            hash |-> <<>>])

\* EnhancedBlock.to_dict
BlockToDict(b) ==
  [b EXCEPT !.transactions = [i \in 1..Len(b.transactions) |->
                                 TxToDict(b.transactions[i])]]

\* EnhancedBlock.from_dict: a transaction dictionary with a 'signature' key
\* goes through SecureTransaction.from_dict, any other stays a dictionary;
\* timestamp, nonce, merkle_root and hash are taken from the dictionary.
BlockFromDictOk(d) ==
  \A i \in 1..Len(d.transactions) :
     d.transactions[i].sigkey => SecureFromDictOk(d.transactions[i])
BlockFromDict(d) ==
  [d EXCEPT !.transactions = [i \in 1..Len(d.transactions) |->
       IF d.transactions[i].sigkey THEN SecureFromDict(d.transactions[i])
       ELSE d.transactions[i]]]

(***************************************************************************)
(* Balances and contracts.  A balance map is a function whose domain is    *)
(* the set of keys of the Python dict.  heap holds the SmartContract       *)
(* objects (one per ContractDeployTransaction object, created with it);    *)
(* contracts is the set of keys of Blockchain.contracts, whose values are  *)
(* references to those objects.  An environment is the triple a validator  *)
(* or an applier works on; ok turns FALSE when the Python code raises.     *)
(***************************************************************************)
Env(ok, st, cs, hp) == [ok |-> ok, state |-> st, contracts |-> cs, heap |-> hp]

\* state.get(addr, 0)
Get(st, addr) == IF addr \in DOMAIN st THEN st[addr] ELSE 0

\* if recipient not in state: state[recipient] = 0; state[recipient] += amount
Credit(st, addr, amount) ==
  IF addr \in DOMAIN st THEN [st EXCEPT ![addr] = @ + amount]
  ELSE st @@ (addr :> amount)

\* state[addr] -= amount, for addr in state
Debit(st, addr, amount) == [st EXCEPT ![addr] = @ - amount]

RECURSIVE SumBalances(_, _)
SumBalances(st, addrs) ==
  IF Len(addrs) = 0 THEN 0
  ELSE Get(st, Head(addrs)) + SumBalances(st, Tail(addrs))

\* SmartContract.execute; kind "none" is the fall-through that returns None
execute(c, tx) ==
  CASE tx.fn = "set_value" ->
         IF tx.p_key # "none" /\ tx.p_value # "none"
         THEN [contract |-> [c EXCEPT !.store =
                   [k \in DOMAIN c.store \cup {tx.p_key} |->
                      IF k = tx.p_key THEN tx.p_value ELSE c.store[k]]],
               kind |-> "success", transfer |-> FALSE]
         ELSE [contract |-> c, kind |-> "none", transfer |-> FALSE]
    [] tx.fn = "get_value" ->
         [contract |-> c,
          kind |-> IF tx.p_key \in DOMAIN c.store THEN "success" ELSE "failure",
          transfer |-> FALSE]
    [] tx.fn = "transfer" ->
         IF c.balance >= tx.p_amount /\ tx.p_amount > 0
         THEN [contract |-> [c EXCEPT !.balance = @ - tx.p_amount],
               kind |-> "success", transfer |-> TRUE]
         ELSE [contract |-> c, kind |-> "failure", transfer |-> FALSE]
    [] tx.fn = "deposit" ->
         [contract |-> [c EXCEPT !.balance = @ + tx.amount],
          kind |-> "success", transfer |-> FALSE]
    [] OTHER -> [contract |-> c, kind |-> "failure", transfer |-> FALSE]

\* Blockchain._validate_advanced_transaction
_validate_advanced_transaction(tx, st, cs) ==
  CASE tx.ttype = "multisig" ->
         VerifyTransaction(tx) /\ SumBalances(st, tx.senders) >= tx.amount
    [] tx.ttype = "timelock" -> VerifyTransaction(tx) /\ IsUnlocked(tx)
    [] tx.ttype = "contract_deploy" ->
         VerifyTransaction(tx) /\ Get(st, tx.sender) >= tx.amount + transaction_fee
    [] tx.ttype = "contract_call" ->
         /\ VerifyTransaction(tx)
         /\ tx.contract \in cs
         /\ Get(st, tx.sender) >= tx.amount + transaction_fee
    [] OTHER -> FALSE

\* Blockchain._is_valid_transaction_for_state; an exception gives False
_is_valid_transaction_for_state(tx, st, cs) ==
  IF HasTransactionType(tx) THEN _validate_advanced_transaction(tx, st, cs)
  ELSE /\ (HasSenderAttr(tx) /\ tx.sender # Coinbase) => VerifyTransaction(tx)
       /\ (~HasSenderAttr(tx)) => HasSenderKey(tx)
       /\ \/ tx.sender = Coinbase
          \/ /\ tx.sender \in DOMAIN st
             /\ st[tx.sender] >= tx.amount
             /\ tx.amount > 0

\* the multisig loop "for addr in sender_addresses: state[addr] -= share";
\* a missing address raises KeyError after the earlier ones were debited
RECURSIVE DebitEach(_, _, _)
DebitEach(st, addrs, share) ==
  IF Len(addrs) = 0 THEN [ok |-> TRUE, state |-> st]
  ELSE IF Head(addrs) \notin DOMAIN st THEN [ok |-> FALSE, state |-> st]
  ELSE DebitEach(Debit(st, Head(addrs), share), Tail(addrs), share)

\* the multisig branch once the senders are debited (d): the recipient is
\* credited unless a debit raised
CreditAfterDebits(tx, e, d) ==
  IF d.ok
  THEN [e EXCEPT !.state = Credit(d.state, tx.recipient, tx.amount)]
  ELSE [e EXCEPT !.ok = FALSE, !.state = d.state]

\* the contract_call branch once contract.execute returned r: the caller is
\* debited value + fee, then result.get('success') raises on None, then a
\* result with 'transfer' credits the recipient
ApplyCallResult(tx, e, r) ==
  IF tx.sender \notin DOMAIN e.state
  THEN [e EXCEPT !.ok = FALSE, !.heap = [e.heap EXCEPT ![tx.contract] = r.contract]]
  ELSE IF r.kind = "none"
  THEN [e EXCEPT !.ok = FALSE,
          !.heap = [e.heap EXCEPT ![tx.contract] = r.contract],
          !.state = Debit(e.state, tx.sender, tx.amount + transaction_fee)]
  ELSE IF r.kind = "success" /\ r.transfer
  THEN [e EXCEPT !.heap = [e.heap EXCEPT ![tx.contract] = r.contract],
          !.state = Credit(Debit(e.state, tx.sender, tx.amount + transaction_fee),
                           tx.p_recipient, tx.p_amount)]
  ELSE [e EXCEPT !.heap = [e.heap EXCEPT ![tx.contract] = r.contract],
          !.state = Debit(e.state, tx.sender, tx.amount + transaction_fee)]

\* Blockchain._apply_advanced_transaction on (state, contracts); the share
\* amount / len(sender_addresses) is exact for the amounts used here
_apply_advanced_transaction(tx, e) ==
  CASE tx.ttype = "multisig" ->
         IF Len(tx.senders) = 0 THEN [e EXCEPT !.ok = FALSE]
         ELSE CreditAfterDebits(tx, e,
                DebitEach(e.state, tx.senders, tx.amount \div Len(tx.senders)))
    [] tx.ttype = "timelock" ->
         IF tx.sender \notin DOMAIN e.state THEN [e EXCEPT !.ok = FALSE]
         ELSE [e EXCEPT !.state = Credit(Debit(e.state, tx.sender, tx.amount),
                                         tx.recipient, tx.amount)]
    [] tx.ttype = "contract_deploy" ->
         IF tx.sender \notin DOMAIN e.state
         THEN [e EXCEPT !.ok = FALSE, !.contracts = @ \cup {tx.contract}]
         ELSE IF tx.amount > 0
         THEN [e EXCEPT !.contracts = @ \cup {tx.contract},
                 !.state = Debit(@, tx.sender, transaction_fee + tx.amount),
                 !.heap = [@ EXCEPT ![tx.contract].balance = tx.amount]]
         ELSE [e EXCEPT !.contracts = @ \cup {tx.contract},
                 !.state = Debit(@, tx.sender, transaction_fee)]
    [] tx.ttype = "contract_call" ->
         IF tx.contract \notin e.contracts THEN [e EXCEPT !.ok = FALSE]
         ELSE ApplyCallResult(tx, e, execute(e.heap[tx.contract], tx))
    [] OTHER -> e

\* the branch for regular transactions shared by
\* _apply_transaction_to_temp_state and _update_state_with_transaction
ApplyRegular(tx, e) ==
  IF ~HasSenderAttr(tx) /\ ~HasSenderKey(tx) THEN [e EXCEPT !.ok = FALSE]
  ELSE IF tx.sender = Coinbase
  THEN [e EXCEPT !.state = Credit(e.state, tx.recipient, tx.amount)]
  ELSE IF tx.sender \notin DOMAIN e.state THEN [e EXCEPT !.ok = FALSE]
  ELSE [e EXCEPT !.state = Credit(Debit(e.state, tx.sender, tx.amount),
                                  tx.recipient, tx.amount)]

\* Blockchain._apply_transaction_to_temp_state: "contracts or {}" hands an
\* empty contracts dict over as a fresh one, so what a deployment registers
\* in it is lost to the caller
OrEmptyDict(e, r) == IF e.contracts = {} THEN [r EXCEPT !.contracts = {}] ELSE r

_apply_transaction_to_temp_state(tx, e) ==
  IF HasTransactionType(tx)
  THEN OrEmptyDict(e, _apply_advanced_transaction(tx, e))
  ELSE ApplyRegular(tx, e)

\* Blockchain._update_state_with_transaction
_update_state_with_transaction(tx, e) ==
  IF HasTransactionType(tx) THEN _apply_advanced_transaction(tx, e)
  ELSE ApplyRegular(tx, e)

(***************************************************************************)
(* Block and chain validation.                                             *)
(***************************************************************************)
\* the loop "for tx in block.transactions: if not valid: return False;
\* apply to temp state" of _validate_new_block and valid_chain.  valid is the
\* verdict so far and ok turns FALSE when applying raised; the contract
\* objects reached through the shallow copy of contracts are the real ones,
\* so heap is the heap the loop leaves behind.
RECURSIVE ValidateTransactions(_, _)
\* the rest of the loop once the head of txs has been applied, giving e2
ValidateRest(txs, e2) ==
  IF e2.ok THEN ValidateTransactions(Tail(txs), e2)
  ELSE [valid |-> FALSE, env |-> e2]

ValidateTransactions(txs, e) ==
  IF Len(txs) = 0 THEN [valid |-> TRUE, env |-> e]
  ELSE IF ~_is_valid_transaction_for_state(Head(txs), e.state, e.contracts)
  THEN [valid |-> FALSE, env |-> e]
  ELSE ValidateRest(txs, _apply_transaction_to_temp_state(Head(txs), e))

\* the end of _validate_new_block, r being the outcome of its transaction loop
TransactionsVerdict(r) ==
  IF r.valid /\ r.env.ok
  THEN [valid |-> TRUE, detail |-> "-", heap |-> r.env.heap]
  ELSE [valid |-> FALSE, detail |-> "Invalid transaction", heap |-> r.env.heap]

\* Blockchain._validate_new_block: the verdict, the message it logs and the
\* heap it leaves
_validate_new_block(block) ==
  IF block.index # Len(chain)
  THEN [valid |-> FALSE, detail |-> "Invalid index", heap |-> heap]
  ELSE IF block.previous_hash # chain[Len(chain)].hash
  THEN [valid |-> FALSE, detail |-> "Invalid previous hash", heap |-> heap]
  ELSE IF ~valid_proof(block.previous_hash, block.proof, block.difficulty)
  THEN [valid |-> FALSE, detail |-> "Invalid proof of work", heap |-> heap]
  ELSE IF calculate_merkle_root(block.transactions) # block.merkle_root
  THEN [valid |-> FALSE, detail |-> "Invalid Merkle root", heap |-> heap]
  ELSE TransactionsVerdict(ValidateTransactions(block.transactions,
                              Env(TRUE, state, contracts, heap)))

\* DifficultyAdjustment.adjust_difficulty
adjust_difficulty(c) ==
  IF Len(c) < adjustment_interval THEN StartDifficulty
  ELSE LET first == c[Len(c) - adjustment_interval + 1]
           lastb == c[Len(c)]
           time_taken == lastb.timestamp - first.timestamp
           expected_time == target_block_time * (adjustment_interval - 1)
       IN  IF 2 * time_taken < expected_time
           THEN Min(lastb.difficulty + 1, max_difficulty)
           ELSE IF time_taken > expected_time * 2
           THEN Max(lastb.difficulty - 1, min_difficulty)
           ELSE lastb.difficulty

\* the loop "for tx in new_block.transactions:
\* self._update_state_with_transaction(tx)"
RECURSIVE UpdateStateWithAll(_, _)
UpdateStateWithAll(txs, e) ==
  IF Len(txs) = 0 \/ ~e.ok THEN e
  ELSE UpdateStateWithAll(Tail(txs), _update_state_with_transaction(Head(txs), e))

\* Blockchain._rebuild_state on chain c: state and contracts start empty, the
\* contract objects are the ones the deploy transactions carry
RECURSIVE RebuildTransactions(_, _)
RebuildTransactions(txs, e) ==
  IF Len(txs) = 0 \/ ~e.ok THEN e
  ELSE RebuildTransactions(Tail(txs),
         IF IsGenesisDict(Head(txs))
         THEN [e EXCEPT !.state =
                 [a \in DOMAIN e.state \cup {Head(txs).recipient} |->
                    IF a = Head(txs).recipient THEN Head(txs).amount
                    ELSE e.state[a]]]
         ELSE _update_state_with_transaction(Head(txs), e))

RECURSIVE RebuildBlocks(_, _)
RebuildBlocks(c, e) ==
  IF Len(c) = 0 \/ ~e.ok THEN e
  ELSE RebuildBlocks(Tail(c), RebuildTransactions(Head(c).transactions, e))

EmptyMap == [a \in {} |-> 0]
_rebuild_state(c, hp) == RebuildBlocks(c, Env(TRUE, EmptyMap, {}, hp))

(***************************************************************************)
(* Initial state: Blockchain.__init__ and _create_genesis_block.           *)
(***************************************************************************)
GenesisBlock ==
  WithHash([index |-> 0, timestamp |-> 0,
            transactions |-> <<GenesisTx(GenesisAddr, GenesisSupply)>>,
            proof |-> GenesisProof, previous_hash |-> ZeroHash,
            miner_address |-> "genesis", difficulty |-> StartDifficulty,
            nonce |-> 0,
            merkle_root |-> calculate_merkle_root(<<GenesisTx(GenesisAddr, GenesisSupply)>>),
            hash |-> <<>>])

\* the message ids of the envelopes peers send: sender_id, the time stamp
\* (numeric is FALSE when the text between the underscores is no number) and
\* the hash of the data
MessageId(sender_id, stamp, numeric, h) ==
  [sender_id |-> sender_id, stamp |-> stamp, numeric |-> numeric, h |-> h]

MessageIds ==
  { MessageId("X", 0, TRUE, 1), MessageId("X", 0, TRUE, 2),
    MessageId("X", 0, TRUE, 3), MessageId("X", 0, FALSE, 4),
    MessageId("X", 0, TRUE, 5), MessageId("X", 0, TRUE, 6),
    MessageId("X", 0, TRUE, 7), MessageId("X", 0, TRUE, 8),
    MessageId("X", 0, TRUE, 9), MessageId("X", 0, TRUE, 10),
    MessageId("test_node", 0, TRUE, 16) }

\* messages_received per message id of a node that has handled nothing
NothingHandled == [id \in {} |-> 0]

\* how often the envelope with message id id was handled, by the count kept
Handled(count, id) == IF id \in DOMAIN count THEN count[id] ELSE 0

\* the count after the envelope with message id id was handled once more
HandledOnceMore(count, id) ==
  [i \in DOMAIN count \cup {id} |->
     IF i = id THEN Handled(count, id) + 1 ELSE count[i]]

\* no transaction object was made yet
NoTransaction == [ttype |-> "none"]

\* self.peers of a node that has met nobody
NoPeers == [id \in {} |-> 0]

\* no connection is open
NoSockets == [c \in {} |-> 0]

NewContract == [balance |-> 0, store |-> [k \in {} |-> "none"]]

Init ==
  /\ chain = <<GenesisBlock>>
  /\ current_transactions = <<>>
  /\ state = (GenesisAddr :> GenesisSupply)
  /\ contracts = {}
  /\ heap = (ContractAddr :> NewContract)
  /\ current_difficulty = StartDifficulty
  /\ now = 0
  /\ calls = 0
  /\ received = 0
  /\ last = [op |-> "init", result |-> "ok", detail |-> "-"]
  /\ pending_block = <<>>
  /\ seen_messages = {}
  /\ gossiped = NothingHandled
  /\ forwarded = {}
  /\ peers = NoPeers
  /\ remote_peers = NoPeers
  /\ sockets = NoSockets
  /\ multisig_tx = NoTransaction

(***************************************************************************)
(* The transactions a client of this node can build and submit.            *)
(***************************************************************************)
Coins(n) == n * FeeUnitsPerCoin

\* the transaction objects and dictionaries handed to new_transaction by the
\* endpoints and by callers of the class; /transactions/new always builds a
\* plain dictionary (its hasattr test on the request dictionary is never true)
ClientTxs ==
  { SecureTransaction(GenesisAddr, "A", Coins(600), "sender", 1),
    DictTx(GenesisAddr, "B", Coins(600), 2),
    SecureTransaction("A", "B", Coins(600), "invalid", 3),
    SecureTransaction(GenesisAddr, "B", Coins(600), "invalid", 9),
    SecureTransaction(GenesisAddr, "B", Coins(600), "none", 10),
    SecureTransaction(GenesisAddr, "B", 0, "sender", 11),
    SecureTransaction(GenesisAddr, "B", Coins(2000), "sender", 12),
    SecureTransaction("Z", "B", Coins(1), "sender", 13),
    TimeLockTransaction(GenesisAddr, "B", Coins(1500), TickSeconds, "sender", 4),
    MultiSigTransaction(<<GenesisAddr, NodeId>>, "B", Coins(100), 1, 1, 5),
    ContractDeployTransaction(GenesisAddr, ContractAddr, Coins(5), "sender", 6),
    ContractCallTransaction(GenesisAddr, ContractAddr, "transfer", "none",
                            "none", "B", Coins(5), 0, "sender", 7),
    ContractCallTransaction(GenesisAddr, ContractAddr, "deposit", "none",
                            "none", NoAddr, 0, Coins(2), "sender", 8) }

(***************************************************************************)
(* Actions.                                                                *)
(***************************************************************************)
\* the operations performed so far: API calls, messages handled, clock ticks
TotalOps == calls + received + now \div TickSeconds

\* time passes
Tick ==
  /\ now < MaxTicks * TickSeconds
  /\ TotalOps < MaxOps
  /\ now' = now + TickSeconds
  /\ last' = [op |-> "tick", result |-> "ok", detail |-> "-"]
  /\ UNCHANGED <<chain, current_transactions, state, contracts, heap,
                 current_difficulty, calls, received, pending_block,
                 seen_messages, gossiped,
                 peers, forwarded, remote_peers, sockets, multisig_tx>>

\* Blockchain.new_transaction(transaction_obj)
NewTransactionCall(tx) ==
  /\ calls' = calls + 1
  /\ IF _is_valid_transaction_for_state(tx, state, contracts)
     THEN /\ current_transactions' = Append(current_transactions, tx)
          /\ last' = [op |-> "new_transaction", result |-> "ok", detail |-> "-"]
     ELSE /\ UNCHANGED current_transactions
          /\ last' = [op |-> "new_transaction", result |-> "Invalid transaction", detail |-> "-"]
  /\ UNCHANGED <<chain, state, contracts, heap, current_difficulty, now,
                 received, pending_block,
                 seen_messages, gossiped,
                 peers, forwarded, remote_peers, sockets, multisig_tx>>

\* new_transaction while no new_block is in progress
NewTransactionWith(tx) ==
  /\ pending_block = <<>>
  /\ NewTransactionCall(tx)

\* a client of this node calling new_transaction
NewTransaction ==
  \E tx \in ClientTxs :
    /\ TotalOps < MaxOps
    /\ NewTransactionWith(tx)

\* Blockchain.new_block(proof, previous_hash, miner_address) on mempool mp:
\* the record of what it leaves behind
\* new_block after a successful validation: the transactions applied (e),
\* the block appended, the mempool cleared
Committed(block, e) ==
  [ok |-> TRUE, detail |-> "-", difficulty |-> block.difficulty,
   chain |-> Append(chain, block), mempool |-> <<>>, state |-> e.state,
   contracts |-> e.contracts, heap |-> e.heap]

\* new_block from the validation verdict v on
NewBlockAfterValidation(block, v) ==
  IF v.valid
  THEN Committed(block, UpdateStateWithAll(block.transactions,
                          Env(TRUE, state, contracts, v.heap)))
  ELSE [ok |-> FALSE, detail |-> v.detail, difficulty |-> block.difficulty,
        chain |-> chain, mempool |-> block.transactions, state |-> state,
        contracts |-> contracts, heap |-> v.heap]

\* new_block from the built block on
NewBlockBuilt(block) == NewBlockAfterValidation(block, _validate_new_block(block))

new_block(mp, proof, previous_hash, miner_address) ==
  NewBlockBuilt(EnhancedBlock(Len(chain), mp, proof, previous_hash, miner_address,
                  IF Len(chain) % adjustment_interval = 0
                  THEN adjust_difficulty(chain) ELSE current_difficulty))

\* the coinbase object made by mine(): SecureTransaction("0", node_id, 1)
MiningRewardTx ==
  [SecureTransaction(Coinbase, NodeId, MiningReward, "none",
                     100 + 10 * Len(chain) + Len(current_transactions))
     EXCEPT !.timestamp = now]

\* the /mine endpoint
MineBlock ==
  /\ pending_block = <<>>
  /\ calls' = calls + 1
  /\ current_difficulty <= MaxZeros
  /\ \E r \in { new_block(Append(current_transactions, MiningRewardTx),
                            proof_of_work(chain[Len(chain)].hash, current_difficulty),
                            chain[Len(chain)].hash, NodeId) } :
       /\ chain' = r.chain
       /\ current_transactions' = r.mempool
       /\ state' = r.state
       /\ contracts' = r.contracts
       /\ heap' = r.heap
       /\ current_difficulty' = r.difficulty
       /\ last' = [op |-> "mine",
                   result |-> IF r.ok THEN "ok" ELSE "Invalid block created",
                   detail |-> r.detail]
  /\ UNCHANGED <<now, received, pending_block,
                 seen_messages, gossiped,
                 peers, forwarded, remote_peers, sockets, multisig_tx>>

\* a client of this node requesting GET /mine
Mine ==
  /\ TotalOps < MaxOps
  /\ MineBlock

(***************************************************************************)
(* What peers send.  A peer controls every field of the dictionaries it    *)
(* sends; the sets below hold well-formed data and data with one field     *)
(* wrong.                                                                  *)
(***************************************************************************)
PeerMiner == "X"

\* a block dictionary
BlockDict(index, ts, txs, proof, previous_hash, miner, difficulty) ==
  WithHash([index |-> index, timestamp |-> ts, transactions |-> txs,
            proof |-> proof, previous_hash |-> previous_hash,
            miner_address |-> miner, difficulty |-> difficulty, nonce |-> 0,
            merkle_root |-> calculate_merkle_root(txs), hash |-> <<>>])

PeerCoinbase(id) ==
  TxToDict(SecureTransaction(Coinbase, PeerMiner, MiningReward, "none", id))

\* transaction dictionaries gossiped by peers
PeerTxs ==
  { TxToDict(SecureTransaction(Coinbase, PeerMiner, Coins(50), "none", 21)),
    DictTx(GenesisAddr, PeerMiner, Coins(2000), 22),
    TxToDict(ContractDeployTransaction(PeerMiner, "C2", 0, "sender", 23)) }

\* transaction lists of the blocks peers send on top of the local tip
PeerBlockTxs ==
  { <<PeerCoinbase(31)>>,
    <<PeerCoinbase(31), DictTx(GenesisAddr, PeerMiner, Coins(600), 32),
      DictTx(GenesisAddr, PeerMiner, Coins(600), 33)>>,
    <<PeerCoinbase(31),
      TxToDict(SecureTransaction(GenesisAddr, "A", Coins(600), "sender", 1))>>,
    <<PeerCoinbase(31), DictTx(GenesisAddr, PeerMiner, Coins(2000), 22)>>,
    <<PeerCoinbase(31),
      TxToDict(ContractDeployTransaction(PeerMiner, "C2", 0, "sender", 23))>> }

Defects == {"none", "index_ahead", "index_behind", "previous_hash", "proof",
            "zero_difficulty", "merkle_root", "hash"}

\* block dictionary good with one field changed after it was hashed
WithDefect(good, defect) ==
  CASE defect = "index_ahead" -> [good EXCEPT !.index = @ + 1]
    [] defect = "index_behind" -> [good EXCEPT !.index = @ - 1]
    [] defect = "previous_hash" -> [good EXCEPT !.previous_hash = ForgedHash]
    [] defect = "proof" -> [good EXCEPT !.proof = GenesisProof]
    [] defect = "zero_difficulty" ->
         [good EXCEPT !.proof = GenesisProof, !.difficulty = 0]
    [] defect = "merkle_root" -> [good EXCEPT !.merkle_root = ForgedRoot]
    [] defect = "hash" -> [good EXCEPT !.hash = ForgedHash]
    [] OTHER -> good

\* a block dictionary meant to follow the block whose carried hash is tip_hash
\* at height index, with one field wrong
PeerBlock(index, tip_hash, txs, defect) ==
  WithDefect(BlockDict(index, 0, txs, proof_of_work(tip_hash, StartDifficulty),
                       tip_hash, PeerMiner, StartDifficulty), defect)

\* genesis blocks of peers
PeerGenesisTxs ==
  { <<GenesisTx(PeerGenesisAddr, GenesisSupply)>>,
    <<GenesisTx(PeerGenesisAddr, GenesisSupply),
      DictTx(PeerGenesisAddr, PeerMiner, Coins(5000), 41)>>,
    <<GenesisTx(PeerGenesisAddr, GenesisSupply),
      DictTx("Q", PeerMiner, Coins(5), 42)>> }

GenesisDefects == {"none", "index", "previous_hash", "merkle_root", "hash"}

WithGenesisDefect(good, defect) ==
  CASE defect = "index" -> [good EXCEPT !.index = 7]
    [] defect = "previous_hash" -> [good EXCEPT !.previous_hash = ForgedHash]
    [] defect = "merkle_root" -> [good EXCEPT !.merkle_root = ForgedRoot]
    [] defect = "hash" -> [good EXCEPT !.hash = ForgedHash]
    [] OTHER -> good

PeerGenesis(txs, defect) ==
  WithGenesisDefect(BlockDict(0, 0, txs, GenesisProof, ZeroHash, "genesis",
                              StartDifficulty), defect)

\* transaction lists of the later blocks of a peer's chain
PeerChainTxs ==
  { <<PeerCoinbase(51)>>,
    <<PeerCoinbase(51), DictTx(PeerGenesisAddr, PeerMiner, Coins(5000), 52)>> }

\* a chain of n block dictionaries: genesis g, then n - 1 blocks that each
\* carry a coinbase, the block at position bad (if any) with txs and defect
RECURSIVE PeerChainFrom(_, _, _, _, _)
PeerChainFrom(c, n, bad, txs, defect) ==
  IF Len(c) >= n THEN c
  ELSE PeerChainFrom(
         Append(c, IF Len(c) + 1 = bad
                   THEN PeerBlock(Len(c), c[Len(c)].hash, txs, defect)
                   ELSE PeerBlock(Len(c), c[Len(c)].hash, <<PeerCoinbase(51)>>,
                                  "none")),
         n, bad, txs, defect)

PlainGenesisTxs == <<GenesisTx(PeerGenesisAddr, GenesisSupply)>>

PeerGenesisBlocks ==
  { PeerGenesis(txs, "none") : txs \in PeerGenesisTxs } \cup
  { PeerGenesis(PlainGenesisTxs, d) : d \in GenesisDefects }

\* the chain of a peer that started from this node's genesis block and mined
\* one block holding a transfer this node was sent as well
SyncedPeerChain ==
  <<BlockToDict(GenesisBlock),
    PeerBlock(1, GenesisBlock.hash,
              <<PeerCoinbase(51),
                TxToDict(SecureTransaction(GenesisAddr, "A", Coins(600),
                                           "sender", 1))>>, "none")>>

PeerChains ==
  { PeerChainFrom(<<g>>, 2, 0, <<>>, "none") : g \in PeerGenesisBlocks }
  \cup
  { PeerChainFrom(<<PeerGenesis(PlainGenesisTxs, "none")>>, n, 0, <<>>, "none") :
      n \in {1, adjustment_interval} }
  \cup
  { PeerChainFrom(<<PeerGenesis(PlainGenesisTxs, "none")>>, 3, bad,
                  <<PeerCoinbase(51)>>, d) : bad \in {2, 3}, d \in Defects }
  \cup
  { PeerChainFrom(<<PeerGenesis(PlainGenesisTxs, "none")>>, 3, 2, txs, "none") :
      txs \in PeerChainTxs }
  \cup
  { SyncedPeerChain }

(***************************************************************************)
(* Overlay handlers (P2PNetworkManager) and the HTTP consensus.            *)
(***************************************************************************)
\* getattr(tx, 'transaction_id', None) or tx.get('transaction_id'), as used
\* by _handle_new_transaction and _remove_mined_transactions: the genesis
\* dictionary has no 'transaction_id'
HasTransactionId(tx) == ~IsGenesisDict(tx)

RECURSIVE TxIds(_)
TxIds(txs) ==
  IF Len(txs) = 0 THEN {}
  ELSE (IF HasTransactionId(Head(txs)) THEN {Head(txs).txid} ELSE {})
       \cup TxIds(Tail(txs))

RECURSIVE RemoveIds(_, _)
RemoveIds(txs, ids) ==
  IF Len(txs) = 0 THEN <<>>
  ELSE (IF HasTransactionId(Head(txs)) /\ Head(txs).txid \in ids
        THEN <<>> ELSE <<Head(txs)>>) \o RemoveIds(Tail(txs), ids)

\* P2PNetworkManager._remove_mined_transactions
_remove_mined_transactions(mempool, mined_transactions) ==
  RemoveIds(mempool, TxIds(mined_transactions))

\* the reconstruction step of _handle_new_transaction: every *.from_dict is
\* SecureTransaction.from_dict, which needs 'sender'
GossipFromDictOk(d) ==
  IF d.ttype \in {"multisig", "timelock", "contract_deploy", "contract_call"}
     \/ d.sigkey
  THEN SecureFromDictOk(d) ELSE TRUE
GossipFromDict(d) ==
  IF d.ttype \in {"multisig", "timelock", "contract_deploy", "contract_call"}
     \/ d.sigkey
  THEN SecureFromDict(d) ELSE d

\* P2PNetworkManager._handle_new_transaction
HandleNewTransactionOn(d) ==
  IF ~GossipFromDictOk(d)
  THEN /\ UNCHANGED current_transactions
       /\ last' = [op |-> "_handle_new_transaction", result |-> "not reconstructed", detail |-> "-"]
  ELSE IF GossipFromDict(d).txid \in TxIds(current_transactions)
  THEN /\ UNCHANGED current_transactions
       /\ last' = [op |-> "_handle_new_transaction", result |-> "already in mempool", detail |-> "-"]
  ELSE /\ current_transactions' = Append(current_transactions, GossipFromDict(d))
       /\ last' = [op |-> "_handle_new_transaction", result |-> "ok", detail |-> "-"]

HandleNewTransaction ==
  \E d \in PeerTxs :
    /\ received < MaxReceived
    /\ TotalOps < MaxOps
    /\ received' = received + 1
    /\ HandleNewTransactionOn(d)
    /\ UNCHANGED <<chain, state, contracts, heap, current_difficulty, now,
                   calls, pending_block,
                 seen_messages, gossiped,
                 peers, forwarded, remote_peers, sockets, multisig_tx>>

\* P2PNetworkManager._is_valid_transaction_for_current_state: no contracts
\* are handed over
_is_valid_transaction_for_current_state(tx, st) ==
  _is_valid_transaction_for_state(tx, st, {})

\* _validate_received_block without its proof-of-work check
ValidateReceivedBlockWithoutProof(block) ==
  /\ block.merkle_root = calculate_merkle_root(block.transactions)
  /\ \A i \in 1..Len(block.transactions) :
        _is_valid_transaction_for_current_state(block.transactions[i], state)

\* P2PNetworkManager._validate_received_block
_validate_received_block(block) ==
  /\ valid_proof(block.previous_hash, block.proof, block.difficulty)
  /\ block.merkle_root = calculate_merkle_root(block.transactions)
  /\ \A i \in 1..Len(block.transactions) :
        _is_valid_transaction_for_current_state(block.transactions[i], state)

\* the warning _validate_received_block logs when it returns False
ReceivedBlockWarning(block) ==
  IF ~valid_proof(block.previous_hash, block.proof, block.difficulty)
  THEN "Invalid proof of work"
  ELSE IF block.merkle_root # calculate_merkle_root(block.transactions)
  THEN "Invalid merkle root"
  ELSE "Invalid transaction in block"

\* the loop of _handle_new_block that applies the transactions of a validated
\* block: it returns from the handler at the first transaction that is not
\* valid any more (done = FALSE), leaving what it applied so far
RECURSIVE ApplyReceived(_, _)
\* the rest of the loop once the head of txs has been applied, giving e2
ApplyRest(txs, e2) ==
  IF e2.ok THEN ApplyReceived(Tail(txs), e2) ELSE [done |-> FALSE, env |-> e2]

ApplyReceived(txs, e) ==
  IF Len(txs) = 0 THEN [done |-> TRUE, env |-> e]
  ELSE IF ~_is_valid_transaction_for_current_state(Head(txs), e.state)
  THEN [done |-> FALSE, env |-> e]
  ELSE ApplyRest(txs, _update_state_with_transaction(Head(txs), e))

\* _handle_new_block once the block passed _validate_received_block:
\* applied is the outcome of the loop that applies its transactions
ApplyAndAppend(new_block_obj, applied) ==
  /\ state' = applied.env.state
  /\ contracts' = applied.env.contracts
  /\ heap' = applied.env.heap
  /\ IF applied.done
     THEN /\ last' = [op |-> "_handle_new_block", result |-> "added",
                      detail |-> "-"]
          /\ chain' = Append(chain, new_block_obj)
          /\ current_transactions' =
               _remove_mined_transactions(current_transactions,
                                          new_block_obj.transactions)
     ELSE /\ last' = [op |-> "_handle_new_block", result |-> "returned early",
                      detail |-> "Invalid transaction in received block"]
          /\ UNCHANGED <<chain, current_transactions>>

\* _handle_new_block asking for the chain whenever the index of the block is
\* not the length of the chain
HandleNewBlockObjectAlwaysAsking(new_block_obj) ==
  IF new_block_obj.index = Len(chain)
  THEN IF new_block_obj.previous_hash # chain[Len(chain)].hash
       THEN /\ last' = [op |-> "_handle_new_block", result |-> "not connected",
                        detail |-> "-"]
            /\ UNCHANGED <<chain, current_transactions, state, contracts, heap>>
       ELSE IF ~_validate_received_block(new_block_obj)
       THEN /\ last' = [op |-> "_handle_new_block", result |-> "validation failed",
                        detail |-> ReceivedBlockWarning(new_block_obj)]
            /\ UNCHANGED <<chain, current_transactions, state, contracts, heap>>
       ELSE ApplyAndAppend(new_block_obj,
                           ApplyReceived(new_block_obj.transactions,
                                         Env(TRUE, state, contracts, heap)))
  ELSE /\ last' = [op |-> "_handle_new_block", result |-> "chain_request",
                   detail |-> "-"]
       /\ UNCHANGED <<chain, current_transactions, state, contracts, heap>>

\* _handle_new_block on the block object made by EnhancedBlock.from_dict
HandleNewBlockObject(new_block_obj) ==
  IF new_block_obj.index = Len(chain)
  THEN IF new_block_obj.previous_hash # chain[Len(chain)].hash
       THEN /\ last' = [op |-> "_handle_new_block", result |-> "not connected",
                        detail |-> "-"]
            /\ UNCHANGED <<chain, current_transactions, state, contracts, heap>>
       ELSE IF ~_validate_received_block(new_block_obj)
       THEN /\ last' = [op |-> "_handle_new_block", result |-> "validation failed",
                        detail |-> ReceivedBlockWarning(new_block_obj)]
            /\ UNCHANGED <<chain, current_transactions, state, contracts, heap>>
       ELSE ApplyAndAppend(new_block_obj,
                           ApplyReceived(new_block_obj.transactions,
                                         Env(TRUE, state, contracts, heap)))
  ELSE IF new_block_obj.index > Len(chain)
  THEN /\ last' = [op |-> "_handle_new_block", result |-> "chain_request",
                   detail |-> "-"]
       /\ UNCHANGED <<chain, current_transactions, state, contracts, heap>>
  ELSE /\ last' = [op |-> "_handle_new_block", result |-> "old block",
                   detail |-> "-"]
       /\ UNCHANGED <<chain, current_transactions, state, contracts, heap>>

\* P2PNetworkManager._handle_new_block on block dictionary d
HandleNewBlockOn(d) ==
  IF ~BlockFromDictOk(d)
  THEN /\ last' = [op |-> "_handle_new_block", result |-> "not converted",
                   detail |-> "-"]
       /\ UNCHANGED <<chain, current_transactions, state, contracts, heap>>
  ELSE HandleNewBlockObject(BlockFromDict(d))

PeerBlockChoices ==
  { <<txs, "none">> : txs \in PeerBlockTxs } \cup
  { <<<<PeerCoinbase(31)>>, d>> : d \in Defects }

HandleNewBlock ==
  \E choice \in PeerBlockChoices :
    /\ received < MaxReceived
    /\ TotalOps < MaxOps
    /\ received' = received + 1
    /\ HandleNewBlockOn(PeerBlock(Len(chain), chain[Len(chain)].hash,
                                  choice[1], choice[2]))
    /\ UNCHANGED <<current_difficulty, now, calls, pending_block,
                 seen_messages, gossiped,
                 peers, forwarded, remote_peers, sockets, multisig_tx>>

\* Blockchain.valid_chain(chain_data) for a list of block dictionaries
RECURSIVE ValidChainFrom(_, _, _)
\* the loop over the blocks goes on after block i, whose transaction loop
\* gave r
ValidChainNext(c, i, r) == r.valid /\ r.env.ok /\ ValidChainFrom(c, i + 1, r.env)

ValidChainFrom(c, i, e) ==
  IF i > Len(c) THEN TRUE
  ELSE IF \/ c[i].index # i - 1
          \/ c[i].previous_hash # c[i - 1].hash
          \/ ~valid_proof(c[i].previous_hash, c[i].proof, c[i].difficulty)
          \/ c[i].merkle_root # calculate_merkle_root(c[i].transactions)
  THEN FALSE
  ELSE ValidChainNext(c, i, ValidateTransactions(c[i].transactions, e))

RECURSIVE GenesisState(_, _)
GenesisState(txs, st) ==
  IF Len(txs) = 0 THEN st
  ELSE GenesisState(Tail(txs),
         IF IsGenesisDict(Head(txs))
         THEN [a \in DOMAIN st \cup {Head(txs).recipient} |->
                 IF a = Head(txs).recipient THEN Head(txs).amount ELSE st[a]]
         ELSE st)

\* the list of blocks made with EnhancedBlock.from_dict
ChainFromDicts(chain_data) ==
  [i \in 1..Len(chain_data) |-> BlockFromDict(chain_data[i])]

\* valid_chain once the dictionaries are converted
ValidChainObjects(c) ==
  /\ c[1].previous_hash = ZeroHash
  /\ ValidChainFrom(c, 2, Env(TRUE, GenesisState(c[1].transactions, EmptyMap),
                              {}, heap))

valid_chain(chain_data) ==
  /\ Len(chain_data) > 0
  /\ \A i \in 1..Len(chain_data) : BlockFromDictOk(chain_data[i])
  /\ ValidChainObjects(ChainFromDicts(chain_data))

\* the replacement made by _handle_chain_response and by resolve_conflicts:
\* the chain is replaced first, then _rebuild_state runs and may raise
ReplaceChain(chain_data) ==
  /\ chain' = ChainFromDicts(chain_data)
  /\ \E e \in {_rebuild_state(ChainFromDicts(chain_data), heap)} :
       /\ state' = e.state
       /\ contracts' = e.contracts
       /\ heap' = e.heap
       /\ last' = [op |-> "replace chain",
                   result |-> IF e.ok THEN "replaced" ELSE "rebuild raised",
                   detail |-> "-"]

PeerLengths(chain_data) == {Len(chain_data), LengthLie}

\* P2PNetworkManager._handle_chain_response on the payload
\* {'chain': peer_chain, 'length': peer_length}
HandleChainResponseWith(peer_chain, peer_length) ==
  /\ received < MaxReceived
  /\ TotalOps < MaxOps
  /\ received' = received + 1
  /\ IF peer_length > Len(chain)
     THEN IF valid_chain(peer_chain)
          THEN ReplaceChain(peer_chain)
          ELSE /\ last' = [op |-> "_handle_chain_response", result |-> "invalid chain", detail |-> "-"]
               /\ UNCHANGED <<chain, state, contracts, heap>>
     ELSE /\ last' = [op |-> "_handle_chain_response", result |-> "not longer", detail |-> "-"]
          /\ UNCHANGED <<chain, state, contracts, heap>>
  /\ UNCHANGED <<current_transactions, current_difficulty, now, calls,
                 pending_block, seen_messages, gossiped,
                 peers, forwarded, remote_peers, sockets, multisig_tx>>

\* P2PNetworkManager._handle_chain_response
HandleChainResponse ==
  \E peer_chain \in PeerChains :
    \E peer_length \in PeerLengths(peer_chain) :
      HandleChainResponseWith(peer_chain, peer_length)

\* the chains the registered node answers GET /chain with: its genesis
\* alone, the chain of a peer in step with this node, a chain with a block
\* whose proof is wrong, and a chain of adjustment_interval blocks
RegisteredNodeChains ==
  { SyncedPeerChain,
    PeerChainFrom(<<PeerGenesis(PlainGenesisTxs, "none")>>, 3, 3,
                  <<PeerCoinbase(51)>>, "proof") }
  \cup
  { PeerChainFrom(<<PeerGenesis(PlainGenesisTxs, "none")>>, n, 0, <<>>, "none") :
      n \in {1, adjustment_interval} }

\* Blockchain.resolve_conflicts without a P2P manager, one registered node
\* answering GET /chain
ResolveConflicts ==
  \E chain_data \in RegisteredNodeChains :
    \E length \in PeerLengths(chain_data) :
      /\ received < MaxReceived
      /\ TotalOps < MaxOps
      /\ received' = received + 1
      /\ IF length > Len(chain) /\ valid_chain(chain_data)
         THEN ReplaceChain(chain_data)
         ELSE /\ last' = [op |-> "resolve_conflicts", result |-> "authoritative", detail |-> "-"]
              /\ UNCHANGED <<chain, state, contracts, heap>>
      /\ UNCHANGED <<current_transactions, current_difficulty, now, calls,
                     pending_block, seen_messages, gossiped,
                 peers, forwarded, remote_peers, sockets, multisig_tx>>

Next ==
  \/ Tick
  \/ NewTransaction
  \/ Mine
  \/ HandleNewTransaction
  \/ HandleNewBlock
  \/ HandleChainResponse
  \/ ResolveConflicts

Spec == Init /\ [][Next]_vars

(***************************************************************************)
(* The node on its own: clients submit transactions and request /mine      *)
(* again and again, no peer sends anything.                                *)
(***************************************************************************)
MaxMiningCalls == 6

\* a client requesting GET /mine, again after the other clients have stopped
MineAgain ==
  /\ calls < MaxMiningCalls
  /\ MineBlock

NextMining ==
  \/ Tick
  \/ NewTransaction
  \/ MineAgain

\* MineAgain can take a step: the conditions of MineBlock and the bound
MineAgainEnabled ==
  /\ calls < MaxMiningCalls
  /\ pending_block = <<>>
  /\ current_difficulty <= MaxZeros

\* what a request of /mine can leave in last
MineRecords ==
  [op : {"mine"}, result : {"ok", "Invalid block created"},
   detail : {"-", "Invalid index", "Invalid previous hash",
             "Invalid proof of work", "Invalid Merkle root",
             "Invalid transaction"}]

\* a step of MineAgain, told by what it does to calls and last: it is
\* enabled exactly when MineAgain is, and no other action of NextMining
\* leaves a record of "mine"
MineAgainStep ==
  /\ MineAgainEnabled
  /\ calls' = calls + 1
  /\ last' \in MineRecords

\* a request of /mine that can be served is served
SpecMining ==
  /\ Init
  /\ [][NextMining]_vars
  /\ WF_<<calls, last>>(MineAgainStep)

(***************************************************************************)
(* Who signed.  Every transaction below names the genesis address as the   *)
(* address to debit; they differ in the signature and the public key they  *)
(* carry.                                                                  *)
(***************************************************************************)
SignerTxs ==
  { SecureTransaction(GenesisAddr, "B", Coins(1), "sender", 71),
    SecureTransaction(GenesisAddr, "B", Coins(1), "other", 72),
    SecureTransaction(GenesisAddr, "B", Coins(1), "invalid", 73),
    SecureTransaction(GenesisAddr, "B", Coins(1), "none", 74),
    DictTx(GenesisAddr, "B", Coins(1), 75),
    TimeLockTransaction(GenesisAddr, "B", Coins(1), 0, "other", 76),
    ContractDeployTransaction(GenesisAddr, ContractAddr, Coins(1), "other", 77) }

\* a client calling new_transaction with one of them
NewSignerTransaction ==
  \E tx \in SignerTxs :
    /\ TotalOps < MaxOps
    /\ NewTransactionWith(tx)

NextSigners ==
  \/ NewSignerTransaction
  \/ Mine

SpecSigners == Init /\ [][NextSigners]_vars

(***************************************************************************)
(* Retargeting.  A peer network that mines at difficulty d, one block every *)
(* t seconds, sends its chain of adjustment_interval blocks; the next       *)
(* block this node mines is the one new_block retargets for.               *)
(***************************************************************************)
\* the chain of a peer: genesis and blocks mined at the difficulty they carry
RECURSIVE PeerChainMinedAt(_, _, _)
PeerChainMinedAt(c, difficulty, t) ==
  IF Len(c) >= adjustment_interval THEN c
  ELSE PeerChainMinedAt(
         Append(c, BlockDict(Len(c), Len(c) * t, <<PeerCoinbase(51)>>,
                             proof_of_work(c[Len(c)].hash, difficulty),
                             c[Len(c)].hash, PeerMiner, difficulty)),
         difficulty, t)

\* the 'difficulty' a block dictionary may carry and still pass valid_proof
PeerDifficulties == {0, 2, StartDifficulty, 6}

\* seconds between two blocks of a peer's chain
PeerBlockTimes == {0, 10, 25}

RetargetChains ==
  { PeerChainMinedAt(<<PeerGenesis(PlainGenesisTxs, "none")>>, d, t) :
      d \in PeerDifficulties, t \in PeerBlockTimes }

\* _handle_chain_response for the chain of such a network
HandleRetargetChain ==
  \E peer_chain \in RetargetChains :
    HandleChainResponseWith(peer_chain, Len(peer_chain))

NextRetarget ==
  \/ Tick
  \/ NewTransaction
  \/ Mine
  \/ HandleRetargetChain

SpecRetarget == Init /\ [][NextRetarget]_vars

(***************************************************************************)
(* Contracts.  A client deploys a contract without initial value and calls *)
(* its functions; every call is signed by the genesis wallet, which pays   *)
(* for it.                                                                 *)
(***************************************************************************)
MaxContractCalls == 5

\* the deployment and the calls the client submits
ContractTxs ==
  { ContractDeployTransaction(GenesisAddr, ContractAddr, 0, "sender", 61),
    ContractCallTransaction(GenesisAddr, ContractAddr, "set_value", "none",
                            "v", NoAddr, 0, 0, "sender", 62),
    ContractCallTransaction(GenesisAddr, ContractAddr, "get_value", "k",
                            "none", NoAddr, 0, 0, "sender", 63),
    ContractCallTransaction(GenesisAddr, ContractAddr, "transfer", "none",
                            "none", "B", Coins(4), 0, "sender", 64),
    ContractCallTransaction(GenesisAddr, ContractAddr, "deposit", "none",
                            "none", NoAddr, 0, Coins(2), "sender", 65),
    ContractCallTransaction(GenesisAddr, ContractAddr, "withdraw", "none",
                            "none", NoAddr, 0, 0, "sender", 66) }

NewContractTransaction ==
  \E tx \in ContractTxs :
    /\ calls < MaxContractCalls
    /\ NewTransactionWith(tx)

MineContractBlock ==
  /\ calls < MaxContractCalls
  /\ MineBlock

NextContracts ==
  \/ NewContractTransaction
  \/ MineContractBlock

SpecContracts == Init /\ [][NextContracts]_vars

(***************************************************************************)
(* Multi-signature transactions.  A wallet is named by its address, which  *)
(* is derived from its public key, and the name stands for its key pair    *)
(* as well: the signature a wallet makes over the content of the           *)
(* transaction is written as the name of the wallet, and                   *)
(* Wallet.verify_signature accepts a signature under a public key when     *)
(* both belong to the same wallet.                                         *)
(***************************************************************************)
Wallets == {"A", "B", "C", "E"}

\* the lists sender_addresses clients pass
SenderLists == {{"A", "B"}, {"A", "B", "C"}}

\* the values of required_signatures clients pass; 0 stands for None as well
RequiredChoices == 0..3

\* an empty dictionary
EmptyDict == [a \in {} |-> ""]

\* d[k] = v
DictPut(d, k, v) == [a \in DOMAIN d \cup {k} |-> IF a = k THEN v ELSE d[a]]

\* MultiSigTransaction.__init__
MultiSigObject(sender_addresses, required_signatures) ==
  [ttype |-> "multisig", sender_addresses |-> sender_addresses,
   required_signatures |-> IF required_signatures = 0
                           THEN Cardinality(sender_addresses)
                           ELSE required_signatures,
   signatures |-> EmptyDict, public_keys |-> EmptyDict]

\* Wallet.verify_signature on the content of the transaction
verify_signature(signature, public_key_pem) == signature = public_key_pem

\* valid_signatures at the end of MultiSigTransaction.verify_transaction
ValidSignatures(tx) ==
  Cardinality({ address \in DOMAIN tx.signatures :
                  /\ address \in DOMAIN tx.public_keys
                  /\ verify_signature(tx.signatures[address],
                                      tx.public_keys[address]) })

\* MultiSigTransaction.verify_transaction
MultiSigVerify(tx) ==
  IF Cardinality(DOMAIN tx.signatures) < tx.required_signatures THEN FALSE
  ELSE ValidSignatures(tx) >= tx.required_signatures

\* multisig_tx = MultiSigTransaction(sender_addresses, recipient, amount,
\* required_signatures)
CreateMultiSig ==
  /\ multisig_tx = NoTransaction
  /\ \E sender_addresses \in SenderLists, required_signatures \in RequiredChoices :
       multisig_tx' = MultiSigObject(sender_addresses, required_signatures)
  /\ last' = [op |-> "MultiSigTransaction", result |-> "created", detail |-> "-"]
  /\ UNCHANGED <<chain, current_transactions, state, contracts, heap,
                 current_difficulty, now, calls, received, pending_block,
                 seen_messages, gossiped, peers, forwarded, remote_peers,
                 sockets>>

\* MultiSigTransaction.sign_transaction(wallet)
SignMultiSig ==
  /\ multisig_tx # NoTransaction
  /\ \E wallet \in Wallets :
       IF wallet \notin multisig_tx.sender_addresses
       THEN /\ last' = [op |-> "sign_transaction", result |-> "ValueError",
                        detail |-> wallet]
            /\ UNCHANGED multisig_tx
       ELSE /\ multisig_tx' =
                 [multisig_tx EXCEPT
                    !.signatures = DictPut(@, wallet, wallet),
                    !.public_keys = DictPut(@, wallet, wallet)]
            /\ last' = [op |-> "sign_transaction", result |-> "signed",
                        detail |-> wallet]
  /\ UNCHANGED <<chain, current_transactions, state, contracts, heap,
                 current_difficulty, now, calls, received, pending_block,
                 seen_messages, gossiped, peers, forwarded, remote_peers,
                 sockets>>

\* what a client can write under an address of the two dictionaries: the
\* signature and public key of wallet E, or a string that is no signature
ForeignSignatures == {"E", "invalid_signature"}

\* a client writing an entry of the dictionaries signatures and public_keys
\* of the object without sign_transaction
AssignSignature ==
  /\ multisig_tx # NoTransaction
  /\ \E address \in Wallets, signature \in ForeignSignatures :
       /\ multisig_tx' =
            [multisig_tx EXCEPT
               !.signatures = DictPut(@, address, signature),
               !.public_keys = DictPut(@, address, "E")]
       /\ last' = [op |-> "signatures[address] = signature",
                   result |-> signature, detail |-> address]
  /\ UNCHANGED <<chain, current_transactions, state, contracts, heap,
                 current_difficulty, now, calls, received, pending_block,
                 seen_messages, gossiped, peers, forwarded, remote_peers,
                 sockets>>

\* multisig_tx.verify_transaction()
VerifyMultiSig ==
  /\ multisig_tx # NoTransaction
  /\ last' = [op |-> "verify_transaction",
              result |-> IF MultiSigVerify(multisig_tx) THEN "True" ELSE "False",
              detail |-> "-"]
  /\ UNCHANGED <<chain, current_transactions, state, contracts, heap,
                 current_difficulty, now, calls, received, pending_block,
                 seen_messages, gossiped, peers, forwarded, remote_peers,
                 sockets, multisig_tx>>

NextMultiSig ==
  \/ CreateMultiSig
  \/ SignMultiSig
  \/ AssignSignature
  \/ VerifyMultiSig

SpecMultiSig == Init /\ [][NextMultiSig]_vars

(***************************************************************************)
(* The API thread and the overlay thread.  Flask serves /mine on one       *)
(* thread and _start_p2p_networking runs the overlay handlers on another;  *)
(* no lock protects the Blockchain object, so a handler can run between    *)
(* any two statements of new_block.  MineValidate is mine() up to the      *)
(* verdict of _validate_new_block, MineCommit the rest of new_block.       *)
(***************************************************************************)
\* the block new_block builds
NewBlockObject(mp, proof, previous_hash, miner_address) ==
  EnhancedBlock(Len(chain), mp, proof, previous_hash, miner_address,
                IF Len(chain) % adjustment_interval = 0
                THEN adjust_difficulty(chain) ELSE current_difficulty)

\* mine() and new_block from the verdict v of _validate_new_block on block
MineValidated(block, v) ==
  /\ current_transactions' = block.transactions
  /\ current_difficulty' = block.difficulty
  /\ heap' = v.heap
  /\ IF v.valid
     THEN /\ pending_block' = <<block>>
          /\ last' = [op |-> "new_block", result |-> "validated", detail |-> "-"]
     ELSE /\ pending_block' = <<>>
          /\ last' = [op |-> "mine", result |-> "Invalid block created",
                      detail |-> v.detail]

MineValidateBlock(block) == MineValidated(block, _validate_new_block(block))

MineValidate ==
  /\ pending_block = <<>>
  /\ TotalOps < MaxOps
  /\ calls' = calls + 1
  /\ current_difficulty <= MaxZeros
  /\ MineValidateBlock(
       NewBlockObject(Append(current_transactions, MiningRewardTx),
                      proof_of_work(chain[Len(chain)].hash, current_difficulty),
                      chain[Len(chain)].hash, NodeId))
  /\ UNCHANGED <<chain, state, contracts, now, received, seen_messages,
                 gossiped, peers, forwarded, remote_peers, sockets, multisig_tx>>

\* the rest of new_block, e being what the loop over
\* _update_state_with_transaction leaves (it raises when e.ok is FALSE)
MineCommitted(block, e) ==
  /\ state' = e.state
  /\ contracts' = e.contracts
  /\ heap' = e.heap
  /\ IF e.ok
     THEN /\ chain' = Append(chain, block)
          /\ current_transactions' = <<>>
          /\ last' = [op |-> "mine", result |-> "ok", detail |-> "-"]
     ELSE /\ UNCHANGED <<chain, current_transactions>>
          /\ last' = [op |-> "mine", result |-> "raised", detail |-> "-"]

MineCommit ==
  /\ pending_block # <<>>
  /\ pending_block' = <<>>
  /\ MineCommitted(pending_block[1],
                   UpdateStateWithAll(pending_block[1].transactions,
                                      Env(TRUE, state, contracts, heap)))
  /\ UNCHANGED <<current_difficulty, now, calls, received, seen_messages,
                 gossiped, peers, forwarded, remote_peers, sockets, multisig_tx>>

NextThreads ==
  \/ NewTransaction
  \/ MineValidate
  \/ MineCommit
  \/ HandleNewBlock
  \/ HandleChainResponse

SpecThreads == Init /\ [][NextThreads]_vars

(***************************************************************************)
(* Requests and gossip during new_block.  app.run serves every request on  *)
(* a thread of its own, so new_transaction can run for one request between *)
(* two statements of the new_block of another, as the overlay's            *)
(* _handle_new_transaction can.                                            *)
(***************************************************************************)
\* a client calling new_transaction while new_block is in progress
NewTransactionMeanwhile ==
  \E tx \in ClientTxs :
    /\ TotalOps < MaxOps
    /\ pending_block # <<>>
    /\ NewTransactionCall(tx)

NextMeanwhile ==
  \/ NewTransaction
  \/ NewTransactionMeanwhile
  \/ HandleNewTransaction
  \/ MineValidate
  \/ MineCommit

SpecMeanwhile == Init /\ [][NextMeanwhile]_vars

(***************************************************************************)
(* Envelopes.  _process_message drops an envelope whose message_id is in   *)
(* seen_messages, records the id otherwise, calls the handler of the       *)
(* envelope's type and forwards the envelope; _cleanup_old_messages        *)
(* forgets the ids stamped more than an hour ago, every 30 minutes.        *)
(***************************************************************************)
Envelope(type, data, sender_id, message_id) ==
  [type |-> type, data |-> data, sender_id |-> sender_id,
   message_id |-> message_id]

\* the envelopes peers send, any number of times each
Envelopes ==
  { Envelope("ping", <<>>, "X", MessageId("X", 0, TRUE, 1)),
    Envelope("new_transaction",
             DictTx(GenesisAddr, PeerMiner, Coins(2000), 22),
             "X", MessageId("X", 0, TRUE, 2)),
    Envelope("new_block",
             PeerBlock(1, GenesisBlock.hash, <<PeerCoinbase(31)>>, "none"),
             "X", MessageId("X", 0, TRUE, 3)),
    Envelope("ping", <<>>, "X", MessageId("X", 0, FALSE, 4)),
    Envelope("ping", <<>>, "test_node", MessageId("test_node", 0, TRUE, 16)) }

\* self.messages_received: the envelopes that got past the seen set
RECURSIVE SumOver(_, _)
SumOver(f, ids) ==
  IF ids = {} THEN 0
  ELSE f[CHOOSE id \in ids : TRUE]
       + SumOver(f, ids \ {CHOOSE id \in ids : TRUE})

Processed == SumOver(gossiped, DOMAIN gossiped)

\* the keys of message_handlers
HandledTypes ==
  {"transaction", "block", "new_transaction", "new_block", "peer_discovery",
   "chain_request", "chain_response", "ping", "pong"}

\* the handler raises: _handle_peer_discovery evaluates "'known_peers' in
\* data" and iterates data['known_peers'] outside any try block; the other
\* handlers catch what their payload makes them raise or do not read it
HandlerRaises(message) ==
  message.type = "peer_discovery" /\ message.data = "not a dict"

\* the handler _process_message finds in message_handlers
CallHandler(message) ==
  CASE message.type \in {"new_transaction", "transaction"} ->
         /\ HandleNewTransactionOn(message.data)
         /\ UNCHANGED <<chain, state, contracts, heap>>
    [] message.type \in {"new_block", "block"} ->
         /\ HandleNewBlockOn(message.data)
    [] message.type = "peer_discovery" ->
         /\ last' = [op |-> "_handle_peer_discovery",
                     result |-> IF HandlerRaises(message) THEN "raised"
                                ELSE "answered",
                     detail |-> "-"]
         /\ UNCHANGED <<chain, current_transactions, state, contracts, heap>>
    [] message.type = "chain_request" ->
         /\ last' = [op |-> "_handle_chain_request", result |-> "answered",
                     detail |-> "-"]
         /\ UNCHANGED <<chain, current_transactions, state, contracts, heap>>
    [] message.type = "chain_response" ->
         /\ IF message.data.length > Len(chain)
            THEN IF valid_chain(message.data.chain)
                 THEN ReplaceChain(message.data.chain)
                 ELSE /\ last' = [op |-> "_handle_chain_response",
                                  result |-> "invalid chain", detail |-> "-"]
                      /\ UNCHANGED <<chain, state, contracts, heap>>
            ELSE /\ last' = [op |-> "_handle_chain_response",
                             result |-> "not longer", detail |-> "-"]
                 /\ UNCHANGED <<chain, state, contracts, heap>>
         /\ UNCHANGED current_transactions
    [] message.type \notin HandledTypes ->
         /\ last' = [op |-> "_process_message", result |-> "Unknown message type",
                     detail |-> "-"]
         /\ UNCHANGED <<chain, current_transactions, state, contracts, heap>>
    [] OTHER ->
         /\ last' = [op |-> "_handle_ping", result |-> "pong", detail |-> "-"]
         /\ UNCHANGED <<chain, current_transactions, state, contracts, heap>>

\* PeerNode.__init__
PeerNode(websocket) ==
  [websocket |-> websocket, reputation |-> 100, is_connected |-> FALSE]

\* PeerNode.increase_reputation
increase_reputation(peer) ==
  [peer EXCEPT !.reputation = Min(100, peer.reputation + 1)]

\* decrease_reputation without its floor
DecreaseReputationWithoutFloor(peer) ==
  [peer EXCEPT !.reputation = peer.reputation - 5]

\* PeerNode.decrease_reputation
decrease_reputation(peer) ==
  [peer EXCEPT !.reputation = Max(0, peer.reputation - 5)]

\* the peer table once _handle_connection has read a message of sender_id
\* from a connection the peer opened
RegisterSender(table, sender_id) ==
  IF sender_id = "" THEN table
  ELSE [id \in DOMAIN table \cup {sender_id} |->
          IF id # sender_id THEN table[id]
          ELSE [(IF id \in DOMAIN table THEN table[id] ELSE PeerNode("inbound"))
                  EXCEPT !.is_connected = TRUE]]

\* the peer table after the handler of message returned or raised
AfterHandler(table, message) ==
  IF message.type \notin HandledTypes \/ message.sender_id \notin DOMAIN table
  THEN table
  ELSE [table EXCEPT ![message.sender_id] =
          IF HandlerRaises(message) THEN decrease_reputation(@)
          ELSE increase_reputation(@)]

\* the list gossip_targets of _gossip_message
GossipTargets(table, exclude_peer) ==
  { peer_id \in DOMAIN table :
      /\ peer_id # exclude_peer
      /\ peer_id # NodeId
      /\ table[peer_id].is_connected
      /\ table[peer_id].websocket # "closed"
      /\ table[peer_id].reputation > 20 }

\* P2PNetworkManager._process_message with self.peers = table
ReceiveEnvelope(message, table) ==
  IF message.message_id \in seen_messages
  THEN /\ last' = [op |-> "_process_message", result |-> "duplicate",
                   detail |-> "-"]
       /\ peers' = table
       /\ forwarded' = {}
       /\ UNCHANGED <<chain, current_transactions, state, contracts, heap,
                      seen_messages, gossiped>>
  ELSE /\ Processed < MaxProcessed
       /\ seen_messages' = seen_messages \cup {message.message_id}
       /\ gossiped' = HandledOnceMore(gossiped, message.message_id)
       /\ CallHandler(message)
       /\ peers' = AfterHandler(table, message)
       /\ forwarded' = GossipTargets(AfterHandler(table, message),
                                     message.sender_id)

\* _handle_connection reading a well-formed envelope and handing it to
\* _process_message
ProcessMessage ==
  \E message \in Envelopes :
    /\ ReceiveEnvelope(message, RegisterSender(peers, message.sender_id))
    /\ UNCHANGED <<current_difficulty, now, calls, received, pending_block,
                   remote_peers, sockets, multisig_tx>>

\* the sender ids in use that contain the separator "_" of message ids;
\* "test_node".split('_')[1] is "node"
UnderscoreSenders == {"test_node"}

\* msg_id.split('_')[1], the field _cleanup_old_messages hands to float():
\* the time stamp for a sender id without "_", a piece of the sender id
\* otherwise
StampField(msg_id) ==
  IF msg_id.sender_id \in UnderscoreSenders
  THEN [numeric |-> FALSE, value |-> 0]
  ELSE [numeric |-> msg_id.numeric, value |-> msg_id.stamp]

\* _cleanup_old_messages forgetting every message id, whatever its age
OldMessagesOfAnyAge(seen, current_time) == seen

\* the set old_messages of _cleanup_old_messages at time current_time
OldMessages(seen, current_time) ==
  { msg_id \in seen :
      current_time - StampField(msg_id).value > MessageRetention }

\* one round of the loop of _cleanup_old_messages and the sleep after it;
\* float() raises on a field that is no number: nothing is removed and the
\* next round starts after the shorter sleep of the except branch
CleanupOldMessages ==
  /\ now < MaxCleanups * CleanupInterval
  /\ IF \E msg_id \in seen_messages : ~StampField(msg_id).numeric
     THEN /\ seen_messages' = seen_messages
          /\ now' = now + CleanupRetry
          /\ last' = [op |-> "_cleanup_old_messages",
                      result |-> "Error cleaning old messages", detail |-> "-"]
     ELSE /\ seen_messages' = seen_messages \ OldMessages(seen_messages, now)
          /\ now' = now + CleanupInterval
          /\ last' = [op |-> "_cleanup_old_messages", result |-> "ok",
                      detail |-> "-"]
  /\ UNCHANGED <<chain, current_transactions, state, contracts, heap,
                 current_difficulty, calls, received, pending_block, gossiped,
                 peers, forwarded, remote_peers, sockets, multisig_tx>>

NextGossip ==
  \/ ProcessMessage
  \/ CleanupOldMessages

SpecGossip == Init /\ [][NextGossip]_vars

(***************************************************************************)
(* The connections.  _handle_connection reads raw messages from the        *)
(* connections peers opened to this node; _try_connect_peer opens a        *)
(* connection to a bootstrap address.                                      *)
(***************************************************************************)
RawMessage(kind, envelope) == [kind |-> kind, envelope |-> envelope]

\* what peer X writes into its connection
RawMessages ==
  { RawMessage("invalid json", <<>>),
    RawMessage("missing field", <<>>),
    RawMessage("envelope",
      Envelope("ping", <<>>, "X", MessageId("X", 0, TRUE, 1))),
    RawMessage("envelope",
      Envelope("new_block",
               PeerBlock(1, GenesisBlock.hash, <<PeerCoinbase(31)>>, "none"),
               "X", MessageId("X", 0, TRUE, 3))),
    RawMessage("envelope",
      Envelope("new_block",
               PeerBlock(1, GenesisBlock.hash, <<PeerCoinbase(31)>>, "proof"),
               "X", MessageId("X", 0, TRUE, 5))),
    RawMessage("envelope",
      Envelope("new_transaction",
               TxToDict(ContractDeployTransaction(PeerMiner, "C2", 0, "sender", 23)),
               "X", MessageId("X", 0, TRUE, 6))),
    RawMessage("envelope",
      Envelope("bogus", <<>>, "X", MessageId("X", 0, TRUE, 7))),
    RawMessage("envelope",
      Envelope("peer_discovery", "not a dict", "X", MessageId("X", 0, TRUE, 8))),
    RawMessage("envelope",
      Envelope("peer_discovery", "known_peers", "X", MessageId("X", 0, TRUE, 9))) }

\* P2PNetworkManager._handle_connection on one raw message
HandleConnection ==
  \E raw \in RawMessages :
    /\ IF raw.kind = "invalid json"
       THEN /\ last' = [op |-> "_handle_connection", result |-> "Invalid JSON",
                        detail |-> "-"]
            /\ UNCHANGED <<chain, current_transactions, state, contracts, heap,
                           seen_messages, gossiped, peers, forwarded>>
       ELSE IF raw.kind = "missing field"
       THEN /\ last' = [op |-> "_handle_connection",
                        result |-> "Error processing message", detail |-> "-"]
            /\ UNCHANGED <<chain, current_transactions, state, contracts, heap,
                           seen_messages, gossiped, peers, forwarded>>
       ELSE ReceiveEnvelope(raw.envelope,
                            RegisterSender(peers, raw.envelope.sender_id))
    /\ UNCHANGED <<current_difficulty, now, calls, received, pending_block,
                   remote_peers, sockets, multisig_tx>>

\* the address:port key _try_connect_peer files a bootstrap node under
BootstrapPeer == "127.0.0.1:8001"

\* P2PNetworkManager._try_connect_peer once websockets.connect succeeded
\* the introduction _try_connect_peer sends
Introduction(node_id, h) ==
  Envelope("peer_discovery", "node_id", node_id, MessageId(node_id, 0, TRUE, h))

\* a connection just opened by a node that sent its introduction
OpenedWith(message) == [server_inbox |-> <<message>>, client_inbox |-> <<>>]

\* sockets with connection c opened
WithConnection(c, socket) ==
  [d \in DOMAIN sockets \cup {c} |-> IF d = c THEN socket ELSE sockets[d]]

TryConnectPeer ==
  /\ BootstrapPeer \notin DOMAIN peers
  /\ UNCHANGED multisig_tx
  /\ sockets' = WithConnection("N>X", OpenedWith(Introduction(NodeId, 11)))
  /\ peers' = [id \in DOMAIN peers \cup {BootstrapPeer} |->
                 IF id = BootstrapPeer THEN PeerNode("outbound") ELSE peers[id]]
  /\ last' = [op |-> "_try_connect_peer", result |-> "connected", detail |-> "-"]
  /\ UNCHANGED <<chain, current_transactions, state, contracts, heap,
                 current_difficulty, now, calls, received, pending_block,
                 seen_messages, gossiped, forwarded, remote_peers>>

\* reputations a peer met earlier can have
Reputations == {0, 3, 20, 21, 100}

\* a peer that sent envelopes over a connection it opened
KnownPeer(reputation) ==
  [PeerNode("inbound") EXCEPT !.is_connected = TRUE, !.reputation = reputation]

\* the peer tables of a running node: X and Y connected earlier
PeerTables ==
  {NoPeers} \cup
  { [id \in {"X", "Y"} |-> KnownPeer(IF id = "X" THEN rx ELSE ry)] :
      rx \in Reputations, ry \in Reputations }

InitOverlay ==
  /\ chain = <<GenesisBlock>>
  /\ current_transactions = <<>>
  /\ state = (GenesisAddr :> GenesisSupply)
  /\ contracts = {}
  /\ heap = (ContractAddr :> NewContract)
  /\ current_difficulty = StartDifficulty
  /\ now = 0
  /\ calls = 0
  /\ received = 0
  /\ last = [op |-> "init", result |-> "ok", detail |-> "-"]
  /\ pending_block = <<>>
  /\ seen_messages = {}
  /\ gossiped = NothingHandled
  /\ forwarded = {}
  /\ peers \in PeerTables
  /\ remote_peers = NoPeers
  /\ sockets = NoSockets
  /\ multisig_tx = NoTransaction

NextOverlay ==
  \/ HandleConnection
  \/ TryConnectPeer

SpecOverlay == InitOverlay /\ [][NextOverlay]_vars

(***************************************************************************)
(* Two nodes.  Peer X runs the same overlay code and holds the chain       *)
(* SyncedPeerChain, one block longer than the chain this node starts with. *)
(* A node reads only from the connections other nodes opened to it         *)
(* (_handle_connection is the handler of its server); what is written      *)
(* towards the node that opened a connection stays in client_inbox, no     *)
(* code reads it.                                                          *)
(***************************************************************************)
\* chain_data of _handle_chain_request
ChainToDicts(c) == [i \in 1..Len(c) |-> BlockToDict(c[i])]

\* the address:port key X files this node under
RemoteBootstrapPeer == "127.0.0.1:8000"

\* sockets after message was written into queue (server_inbox or
\* client_inbox) of connection c
Written(socks, c, queue, message) ==
  [socks EXCEPT ![c] =
     IF queue = "server_inbox"
     THEN [@ EXCEPT !.server_inbox = Append(@, message)]
     ELSE [@ EXCEPT !.client_inbox = Append(@, message)]]

\* sockets after the server of connection c read its next message
Read(socks, c) == [socks EXCEPT ![c].server_inbox = Tail(@)]

\* what the handler of message sends back over the connection it came
\* from, for a node with node_id that holds chain_data
Answer(message, node_id, chain_data) ==
  CASE message.type = "peer_discovery" /\ message.data # "not a dict" ->
         <<Envelope("peer_discovery", "known_peers", node_id,
                    MessageId(node_id, 0, TRUE, 12))>>
    [] message.type = "chain_request" ->
         <<Envelope("chain_response",
                    [chain |-> chain_data, length |-> Len(chain_data)],
                    node_id, MessageId(node_id, 0, TRUE, 13))>>
    [] message.type = "ping" ->
         <<Envelope("pong", <<>>, node_id, MessageId(node_id, 0, TRUE, 14))>>
    [] OTHER -> <<>>

\* socks with every message of answers written into client_inbox of c
RECURSIVE Answered(_, _, _)
Answered(socks, c, answers) ==
  IF Len(answers) = 0 THEN socks
  ELSE Answered(Written(socks, c, "client_inbox", Head(answers)), c,
                Tail(answers))

\* _try_connect_peer of X towards this node
PeerConnects ==
  /\ "X>N" \notin DOMAIN sockets
  /\ UNCHANGED multisig_tx
  /\ sockets' = WithConnection("X>N", OpenedWith(Introduction("X", 10)))
  /\ remote_peers' =
       [id \in DOMAIN remote_peers \cup {RemoteBootstrapPeer} |->
          IF id = RemoteBootstrapPeer THEN PeerNode("outbound")
          ELSE remote_peers[id]]
  /\ last' = [op |-> "peer _try_connect_peer", result |-> "connected",
              detail |-> "-"]
  /\ UNCHANGED <<chain, current_transactions, state, contracts, heap,
                 current_difficulty, now, calls, received, pending_block,
                 seen_messages, gossiped, peers, forwarded>>

\* _handle_connection of this node reading the next message of the
\* connection X opened
ServeConnection ==
  /\ "X>N" \in DOMAIN sockets
  /\ Len(sockets["X>N"].server_inbox) > 0
  /\ ReceiveEnvelope(sockets["X>N"].server_inbox[1],
                     RegisterSender(peers, sockets["X>N"].server_inbox[1].sender_id))
  /\ UNCHANGED multisig_tx
  /\ sockets' =
       Answered(Read(sockets, "X>N"), "X>N",
                IF sockets["X>N"].server_inbox[1].message_id \in seen_messages
                THEN <<>>
                ELSE Answer(sockets["X>N"].server_inbox[1], NodeId,
                            ChainToDicts(chain)))
  /\ UNCHANGED <<current_difficulty, now, calls, received, pending_block,
                 remote_peers>>

\* _handle_connection of X reading the next message of the connection this
\* node opened: X files this node as connected, its handler answers
PeerServesConnection ==
  /\ "N>X" \in DOMAIN sockets
  /\ Len(sockets["N>X"].server_inbox) > 0
  /\ remote_peers' =
       AfterHandler(RegisterSender(remote_peers, NodeId),
                    sockets["N>X"].server_inbox[1])
  /\ UNCHANGED multisig_tx
  /\ sockets' =
       Answered(Read(sockets, "N>X"), "N>X",
                Answer(sockets["N>X"].server_inbox[1], "X", SyncedPeerChain))
  /\ last' = [op |-> "peer _handle_connection", result |-> "ok", detail |-> "-"]
  /\ UNCHANGED <<chain, current_transactions, state, contracts, heap,
                 current_difficulty, now, calls, received, pending_block,
                 seen_messages, gossiped, peers, forwarded>>

\* the queue a node writes into when it sends to a peer of its table: the
\* client_inbox of the connection the peer opened, the server_inbox of the
\* connection the node opened itself
RECURSIVE Gossiped(_, _, _, _)
Gossiped(socks, targets, inbound, message) ==
  IF targets = {} THEN socks
  ELSE Gossiped(Written(socks, inbound, "client_inbox", message),
                targets \ {CHOOSE t \in targets : TRUE}, inbound, message)

\* request_chain_from_peers of this node (resolve_conflicts with the
\* overlay running): a chain_request to every gossip target
RequestChain ==
  /\ TotalOps < MaxOps
  /\ calls' = calls + 1
  /\ UNCHANGED multisig_tx
  /\ sockets' = Gossiped(sockets, GossipTargets(peers, ""), "X>N",
                         Envelope("chain_request", <<>>, NodeId,
                                  MessageId(NodeId, 0, TRUE, 15 + calls)))
  /\ last' = [op |-> "request_chain_from_peers", result |-> "sent",
              detail |-> "-"]
  /\ UNCHANGED <<chain, current_transactions, state, contracts, heap,
                 current_difficulty, now, received, pending_block,
                 seen_messages, gossiped, peers, forwarded, remote_peers>>

\* broadcast_block of X for the tip of its chain: a new_block envelope to
\* every gossip target of X
PeerBroadcastsBlock ==
  /\ received < MaxReceived
  /\ received' = received + 1
  /\ UNCHANGED multisig_tx
  /\ sockets' = Gossiped(sockets, GossipTargets(remote_peers, ""), "N>X",
                         Envelope("new_block", SyncedPeerChain[2], "X",
                                  MessageId("X", 0, TRUE, 3)))
  /\ last' = [op |-> "peer broadcast_block", result |-> "sent", detail |-> "-"]
  /\ UNCHANGED <<chain, current_transactions, state, contracts, heap,
                 current_difficulty, now, calls, pending_block,
                 seen_messages, gossiped, peers, forwarded, remote_peers>>

NextNetwork ==
  \/ TryConnectPeer
  \/ PeerConnects
  \/ ServeConnection
  \/ PeerServesConnection
  \/ RequestChain
  \/ PeerBroadcastsBlock

\* every task of both event loops keeps running
SpecNetwork ==
  /\ Init
  /\ [][NextNetwork]_vars
  /\ WF_vars(TryConnectPeer)
  /\ WF_vars(PeerConnects)
  /\ WF_vars(ServeConnection)
  /\ WF_vars(PeerServesConnection)
  /\ WF_vars(RequestChain)
  /\ WF_vars(PeerBroadcastsBlock)

(***************************************************************************)
(* Views of the state used by the properties.                              *)
(***************************************************************************)
\* the last operation committed a whole block (or a whole chain of blocks)
BlockFullyApplied ==
  \/ last.op = "mine" /\ last.result = "ok"
  \/ last.op = "_handle_new_block" /\ last.result = "added"
  \/ last.op = "replace chain" /\ last.result = "replaced"

\* the registered contracts with the contents of their objects
ContractsView == [c \in contracts |-> heap[c]]

\* the chain as GET /chain and chain_response serialise it
SerialisedChain == [i \in 1..Len(chain) |-> BlockToDict(chain[i])]

\* positions of the rewards made by mine() in a transaction list
MinerRewards(txs) ==
  { i \in 1..Len(txs) : /\ txs[i].sender = Coinbase
                        /\ txs[i].recipient = NodeId
                        /\ txs[i].amount = MiningReward }

\* a signature is present and verifies
HasValidSignature(tx) ==
  IF tx.ttype = "multisig" THEN tx.nsigs >= tx.required
  ELSE tx.sig \in {"sender", "other"}

\* the balance precondition of each variant
HasFunds(tx, st) ==
  CASE tx.ttype = "multisig" -> SumBalances(st, tx.senders) >= tx.amount
    [] tx.ttype \in {"contract_deploy", "contract_call"} ->
         Get(st, tx.sender) >= tx.amount + transaction_fee
    [] OTHER -> /\ tx.sender \in DOMAIN st
                /\ st[tx.sender] >= tx.amount
                /\ tx.amount > 0

(***************************************************************************)
(* C1.  In every reachable state every block of the local chain carries    *)
(* its own position as index, the genesis block at position 0 included.    *)
(* (Sequences are 1-based: chain[i] of the program is chain[i + 1] here.)  *)
(***************************************************************************)
C1_IndexIsPosition ==
  \A i \in 1..Len(chain) : chain[i].index = i - 1

(***************************************************************************)
(* C2.  In every reachable state the previous_hash of every block after    *)
(* the genesis block equals the hash of its predecessor recomputed from    *)
(* the predecessor's header fields, not the hash value the predecessor     *)
(* carries.                                                                *)
(***************************************************************************)
C2_PreviousHashIsRecomputedHash ==
  \A i \in 2..Len(chain) :
    chain[i].previous_hash = calculate_hash(chain[i - 1])

(***************************************************************************)
(* C3.  As stated: in every reachable state every block of the chain,      *)
(* the genesis block included, satisfies valid_proof on its previous_hash, *)
(* proof and difficulty.                                                   *)
(***************************************************************************)
C3_EveryBlockHasValidProof ==
  \A i \in 1..Len(chain) :
    valid_proof(chain[i].previous_hash, chain[i].proof, chain[i].difficulty)

(***************************************************************************)
(* C3, amended.  In every reachable state every block after the genesis    *)
(* block satisfies valid_proof on its previous_hash, proof and difficulty, *)
(* whether it was mined locally, received from a peer or installed by      *)
(* chain adoption.                                                         *)
(***************************************************************************)
C3_EveryLaterBlockHasValidProof ==
  \A i \in 2..Len(chain) :
    valid_proof(chain[i].previous_hash, chain[i].proof, chain[i].difficulty)

\* a block received from a peer has just been appended to the chain
C3_PeerBlockAppended ==
  /\ last.op = "_handle_new_block"
  /\ last.result = "added"
  /\ Len(chain) > 1
  /\ chain[Len(chain)].miner_address = PeerMiner

(***************************************************************************)
(* C4.  In every reachable state the merkle_root stored in every block of  *)
(* the chain equals the Merkle root recomputed from the block's            *)
(* transactions; adopted blocks and an adopted genesis block included.     *)
(***************************************************************************)
C4_MerkleRootIsRecomputedRoot ==
  \A i \in 1..Len(chain) :
    chain[i].merkle_root = calculate_merkle_root(chain[i].transactions)

(***************************************************************************)
(* C5.  After a block is fully applied (by mining, by the handling of a    *)
(* peer's block or by the rebuild of the state) no address has a negative  *)
(* balance.                                                                *)
(***************************************************************************)
C5_NoNegativeBalance ==
  BlockFullyApplied => \A a \in DOMAIN state : state[a] >= 0

(***************************************************************************)
(* C6.  Between operations the balance map equals the map that             *)
(* _rebuild_state computes from the local chain.                           *)
(***************************************************************************)
C6_StateIsReplayOfChain ==
  \E e \in {_rebuild_state(chain, heap)} : e.ok /\ e.state = state

(***************************************************************************)
(* C7.  A block rejected because one of its transactions fails validation  *)
(* leaves the chain, the balance map, the contracts and the mempool as     *)
(* they were: for new_block (whose mempool is the one mine() handed it,    *)
(* reward included) and for a block received from a peer.                  *)
(***************************************************************************)
C7_RejectedBlockChangesNothing ==
  [][ /\ (last'.op = "mine" /\ last'.detail = "Invalid transaction")
           => /\ chain' = chain
              /\ state' = state
              /\ ContractsView' = ContractsView
              /\ current_transactions' =
                   Append(current_transactions, MiningRewardTx)
      /\ (/\ last'.op = "_handle_new_block"
          /\ last'.detail \in {"Invalid transaction in block",
                               "Invalid transaction in received block"})
           => /\ chain' = chain
              /\ state' = state
              /\ ContractsView' = ContractsView
              /\ current_transactions' = current_transactions ]_vars

(***************************************************************************)
(* C8.  A chain grown from the fresh genesis block by successful mine      *)
(* operations only, over admitted transactions of any variant, is accepted *)
(* by valid_chain when serialised block by block with to_dict.             *)
(***************************************************************************)
C8_HonestChainIsValid ==
  received = 0 => valid_chain(SerialisedChain)

(***************************************************************************)
(* C9.  When new_block succeeds the chain is one block longer, the new     *)
(* block holds exactly the mempool of the call in admission order, the     *)
(* balance map is the earlier map with those transactions applied once     *)
(* each from left to right, and the mempool is empty.                      *)
(***************************************************************************)
C9_NewBlockCommitsMempoolOnce ==
  [][ (last'.op = "mine" /\ last'.result = "ok")
        => LET mp == Append(current_transactions, MiningRewardTx)
               once == UpdateStateWithAll(mp, Env(TRUE, state, contracts, heap))
           IN  /\ Len(chain') = Len(chain) + 1
               /\ chain'[Len(chain')].transactions = mp
               /\ state' = once.state
               /\ current_transactions' = <<>> ]_vars

(***************************************************************************)
(* C10.  Every block committed by mine() holds exactly one reward          *)
(* transaction (sender "0", amount 1, recipient the miner), also after     *)
(* earlier attempts that failed with "Invalid block created".              *)
(***************************************************************************)
C10_OneRewardPerMinedBlock ==
  [][ (last'.op = "mine" /\ last'.result = "ok")
        => Cardinality(MinerRewards(chain'[Len(chain')].transactions)) = 1
    ]_vars

(***************************************************************************)
(* C11.  new_transaction on a transaction with a bad or missing signature, *)
(* an unknown sender, an insufficient balance or a non-positive amount     *)
(* raises and leaves mempool, balances, contracts and chain as they were   *)
(* (so whatever it appends is signed and funded); a correctly signed       *)
(* transfer whose sender's balance covers the amount is accepted.          *)
(***************************************************************************)
C11_NewTransactionRejectsInvalid ==
  [][ (last'.op = "new_transaction")
        => /\ chain' = chain /\ state' = state
           /\ contracts' = contracts /\ heap' = heap
           /\ IF last'.result = "ok"
              THEN /\ Len(current_transactions') = Len(current_transactions) + 1
                   /\ HasValidSignature(
                        current_transactions'[Len(current_transactions')])
                   /\ HasFunds(current_transactions'[Len(current_transactions')],
                               state)
              ELSE current_transactions' = current_transactions
           /\ \A tx \in ClientTxs :
                (/\ tx.form = "obj" /\ tx.ttype = "basic"
                 /\ HasValidSignature(tx) /\ HasFunds(tx, state))
                  => _is_valid_transaction_for_state(tx, state, contracts)
    ]_vars

(***************************************************************************)
(* C12.  Every transaction that new_transaction or the gossip handler puts *)
(* into the mempool passes _is_valid_transaction_for_state against the     *)
(* state of that moment; a gossiped transaction that does not is not       *)
(* added.                                                                  *)
(***************************************************************************)
C12_AdmittedTransactionsAreValid ==
  [][ (/\ last'.op \in {"new_transaction", "_handle_new_transaction"}
       /\ Len(current_transactions') > Len(current_transactions))
        => _is_valid_transaction_for_state(
             current_transactions'[Len(current_transactions')], state, contracts)
    ]_vars

(***************************************************************************)
(* C13.  Neither new_transaction, called for a client, nor the gossip      *)
(* handler puts a transaction with sender "0" into the mempool.            *)
(***************************************************************************)
C13_NoForeignCoinbaseInMempool ==
  [][ (/\ last'.op \in {"new_transaction", "_handle_new_transaction"}
       /\ Len(current_transactions') > Len(current_transactions))
        => current_transactions'[Len(current_transactions')].sender # Coinbase
    ]_vars

\* the transaction ids found in the blocks of chain c
RECURSIVE ChainTxIds(_)
ChainTxIds(c) ==
  IF Len(c) = 0 THEN {} ELSE TxIds(Head(c).transactions) \cup ChainTxIds(Tail(c))

(***************************************************************************)
(* C14.  When a step commits blocks (a mined block, a peer block appended, *)
(* a longer chain adopted), no transaction left in the mempool has the     *)
(* transaction id of a transaction in a committed block.                   *)
(***************************************************************************)
C14_CommittedTransactionsLeaveMempool ==
  [][ (chain' # chain)
        => TxIds(current_transactions') \cap ChainTxIds(chain') = {}
    ]_vars

(***************************************************************************)
(* C15.  The mempool never holds two entries with the same transaction id. *)
(***************************************************************************)
C15_NoDuplicateInMempool ==
  \A i, j \in 1..Len(current_transactions) :
    (/\ i # j
     /\ HasTransactionId(current_transactions[i])
     /\ HasTransactionId(current_transactions[j]))
      => current_transactions[i].txid # current_transactions[j].txid

\* the registered contracts of environment e with the contents of their objects
EnvContractsView(e) == [c \in e.contracts |-> e.heap[c]]

(***************************************************************************)
(* C16.  The store and the balance of a deployed contract change only by   *)
(* the application of the transactions of a committed block: a step that   *)
(* commits nothing leaves every deployed contract as it was, and a mined   *)
(* block leaves the contracts as one application of its transactions does  *)
(* (validation adds nothing to it).                                        *)
(***************************************************************************)
C16_ValidationLeavesContractsAlone ==
  [][ IF chain' = chain
      THEN ContractsView' = ContractsView
      ELSE (last'.op = "mine")
             => ContractsView' =
                  EnvContractsView(
                    UpdateStateWithAll(chain'[Len(chain')].transactions,
                                       Env(TRUE, state, contracts, heap)))
    ]_vars

(***************************************************************************)
(* C17.  The local chain is replaced only by a candidate with strictly     *)
(* more blocks, so the length of the chain never decreases.                *)
(***************************************************************************)
C17_ChainGrowsOnReplacement ==
  [][ /\ Len(chain') >= Len(chain)
      /\ (last'.op = "replace chain")
           => Len(chain') > Len(chain)
    ]_vars

(***************************************************************************)
(* C18.  A received chain with an invalid block (wrong index, broken hash  *)
(* link, invalid proof of work, Merkle root mismatch) is rejected as a     *)
(* whole: a rejection leaves chain, balance map and contracts as they      *)
(* were, and every block of an adopted chain has its position as index,    *)
(* the Merkle root of its transactions and, after the first, the hash of   *)
(* its predecessor as previous_hash and a valid proof.                     *)
(***************************************************************************)
C18_InvalidCandidateIsRejected ==
  [][ /\ (last'.result \in {"invalid chain", "authoritative", "not longer"})
           => /\ chain' = chain
              /\ state' = state
              /\ ContractsView' = ContractsView
      /\ (last'.op = "replace chain")
           => \A i \in 1..Len(chain') :
                /\ chain'[i].index = i - 1
                /\ chain'[i].merkle_root =
                     calculate_merkle_root(chain'[i].transactions)
                /\ (i > 1) =>
                     /\ chain'[i].previous_hash = chain'[i - 1].hash
                     /\ valid_proof(chain'[i].previous_hash, chain'[i].proof,
                                    chain'[i].difficulty)
    ]_vars

(***************************************************************************)
(* C19.  Under every interleaving of new_block on the API thread with the  *)
(* overlay handlers, no two blocks of the chain have the same index and    *)
(* every block after the first has the hash of its predecessor as          *)
(* previous_hash.                                                          *)
(***************************************************************************)
C19_BlockCommitIsIndivisible ==
  /\ \A i, j \in 1..Len(chain) :
        (i # j) => chain[i].index # chain[j].index
  /\ \A i \in 2..Len(chain) : chain[i].previous_hash = chain[i - 1].hash

ConnectedPeers(table) ==
  { peer_id \in DOMAIN table : table[peer_id].websocket \in {"inbound", "outbound"} }

(***************************************************************************)
(* C21.  When an envelope of peer X got past the seen set, it is forwarded *)
(* to every connected peer (inbound or outbound) other than X whose        *)
(* reputation is above 20, and to no other peer.                           *)
(***************************************************************************)
C21_ForwardedToConnectedReputablePeers ==
  [][ (Processed' > Processed)
        => forwarded' = { peer_id \in ConnectedPeers(peers') :
                            /\ peer_id # "X"
                            /\ peers'[peer_id].reputation > 20 }
    ]_vars

(***************************************************************************)
(* C22.  A new_block envelope whose block fails the hash-link, proof,      *)
(* Merkle or transaction checks of _handle_new_block is forwarded to no    *)
(* peer.                                                                   *)
(***************************************************************************)
C22_InvalidBlockNotForwarded ==
  [][ (/\ last'.op = "_handle_new_block"
       /\ last'.result \in {"not connected", "validation failed",
                            "returned early"})
        => forwarded' = {}
    ]_vars

ReputationIn(table, peer_id) ==
  IF peer_id \in DOMAIN table THEN table[peer_id].reputation ELSE 100

(***************************************************************************)
(* C24.  Every reputation lies in 0..100 and a peer not met before starts  *)
(* at 100; an envelope of X whose handler returns raises the reputation    *)
(* of X by 1, at most to 100, an envelope whose handler raises lowers it   *)
(* by 5, at least to 0, and nothing else changes a reputation.             *)
(***************************************************************************)
C24_ReputationStepsAndRange ==
  [][ /\ \A id \in DOMAIN peers' :
           /\ peers'[id].reputation \in 0..100
           /\ (id # "X") => peers'[id].reputation = ReputationIn(peers, id)
      /\ ("X" \in DOMAIN peers')
           => peers'["X"].reputation =
                IF gossiped' = gossiped
                   \/ last'.result = "Unknown message type"
                THEN ReputationIn(peers, "X")
                ELSE IF last'.result = "raised"
                THEN Max(0, ReputationIn(peers, "X") - 5)
                ELSE Min(100, ReputationIn(peers, "X") + 1)
    ]_vars

\* the handler of an envelope of X raised and the reputation of X is at its
\* floor
C24_ReputationAtFloor ==
  /\ last.op = "_handle_peer_discovery"
  /\ last.result = "raised"
  /\ "X" \in DOMAIN peers
  /\ peers["X"].reputation = 0

(***************************************************************************)
(* C25.  A malformed message of peer X (invalid JSON, an envelope without  *)
(* a required field, an unknown type, a payload the handler cannot read)   *)
(* leaves chain, state and mempool as they were and lowers the reputation  *)
(* of X.                                                                   *)
(***************************************************************************)
C25_MalformedMessagePenalised ==
  [][ (/\ "X" \in DOMAIN peers
       /\ last'.result \in {"Invalid JSON", "Error processing message",
                            "Unknown message type", "raised"})
        => /\ chain' = chain
           /\ state' = state
           /\ current_transactions' = current_transactions
           /\ peers'["X"].reputation = Max(0, peers["X"].reputation - 5)
    ]_vars

\* time_taken of adjust_difficulty on chain c
RetargetSpan(c) ==
  c[Len(c)].timestamp - c[Len(c) - adjustment_interval + 1].timestamp

\* expected_time of adjust_difficulty
RetargetExpected == target_block_time * (adjustment_interval - 1)

(***************************************************************************)
(* C26.  When a block is built on a chain whose length is a multiple of    *)
(* adjustment_interval, the node's difficulty does not fall if the last    *)
(* adjustment_interval blocks took less than half the expected time, does  *)
(* not rise if they took more than twice the expected time, changes by at  *)
(* most 1, and lies in 1..10 afterwards.                                   *)
(***************************************************************************)
C26_RetargetDirectionStepAndRange ==
  [][ (/\ last'.op = "mine"
       /\ Len(chain) % adjustment_interval = 0)
        => /\ (2 * RetargetSpan(chain) < RetargetExpected)
                => current_difficulty' >= current_difficulty
           /\ (RetargetSpan(chain) > RetargetExpected * 2)
                => current_difficulty' <= current_difficulty
           /\ current_difficulty' - current_difficulty \in -1..1
           /\ current_difficulty' \in min_difficulty..max_difficulty
    ]_vars

\* the listed senders of tx whose entry of signatures verifies
SignedSenders(tx) ==
  { address \in tx.sender_addresses :
      /\ address \in DOMAIN tx.signatures
      /\ address \in DOMAIN tx.public_keys
      /\ verify_signature(tx.signatures[address], tx.public_keys[address]) }

(***************************************************************************)
(* C27.  verify_transaction of a multi-signature transaction answers True  *)
(* exactly when at least required_signatures of the addresses listed in    *)
(* sender_addresses carry a signature that verifies.                       *)
(***************************************************************************)
C27_VerifiedIffEnoughSendersSigned ==
  (last.op = "verify_transaction")
    => ((last.result = "True")
          <=> (Cardinality(SignedSenders(multisig_tx))
                 >= multisig_tx.required_signatures))

\* how often address a is listed in addrs
Occurrences(addrs, a) == Cardinality({ i \in 1..Len(addrs) : addrs[i] = a })

\* the balance of a once the multisig transaction tx and the reward of the
\* block that holds it are applied to st
BalanceAfterMultiSig(st, tx, a) ==
  Get(st, a)
    - (tx.amount \div Len(tx.senders)) * Occurrences(tx.senders, a)
    + (IF a = tx.recipient THEN tx.amount ELSE 0)
    + (IF a = NodeId THEN MiningReward ELSE 0)

(***************************************************************************)
(* C28.  When the node mines a block on a mempool that holds one valid     *)
(* multisig transaction, every listed sender is debited                    *)
(* amount / len(sender_addresses) and the recipient is credited amount;    *)
(* the miner receives the reward on top.                                   *)
(***************************************************************************)
C28_MultiSigDebitsEverySender ==
  [][ (/\ last'.op = "mine"
       /\ Len(chain) % adjustment_interval # 0
       /\ Len(current_transactions) = 1
       /\ current_transactions[1].ttype = "multisig"
       /\ _is_valid_transaction_for_state(current_transactions[1], state,
                                          contracts))
        => \A a \in DOMAIN state' \cup {NodeId, current_transactions[1].recipient} :
             Get(state', a) = BalanceAfterMultiSig(state, current_transactions[1], a)
    ]_vars

\* the transaction new_transaction has just appended to the mempool mp
Admitted(mp) == mp[Len(mp)]

(***************************************************************************)
(* C29.  new_transaction admits a timelock transaction only if its         *)
(* signature verifies, the clock of the node has reached unlock_time, the  *)
(* sender has an entry in the balance map that covers the amount, and the  *)
(* amount is positive.                                                     *)
(***************************************************************************)
C29_TimeLockAdmittedOnlyIfUnlockedAndFunded ==
  [][ (/\ last'.op = "new_transaction"
       /\ last'.result = "ok"
       /\ Admitted(current_transactions').ttype = "timelock")
        => /\ HasValidSignature(Admitted(current_transactions'))
           /\ now >= Admitted(current_transactions').unlock_time
           /\ HasFunds(Admitted(current_transactions'), state)
    ]_vars

\* the SecureTransaction objects among the transactions txs
BasicObjects(txs) ==
  { txs[i] : i \in { j \in 1..Len(txs) :
                       txs[j].form = "obj" /\ txs[j].ttype = "basic" } }

(***************************************************************************)
(* C30.  For every basic transaction object the node holds, in the mempool *)
(* or in a block of its chain, verify_transaction answers True exactly     *)
(* when the sender is "0" or a signature is present and verifies.          *)
(***************************************************************************)
C30_VerifiedIffCoinbaseOrSigned ==
  \A tx \in BasicObjects(current_transactions)
            \cup UNION { BasicObjects(chain[i].transactions) : i \in 1..Len(chain) } :
    VerifyTransaction(tx) <=> (tx.sender = Coinbase \/ HasValidSignature(tx))

\* the calls of contract c the interface documents as failing
ExpectedFailure(c, tx) ==
  \/ tx.fn \notin {"set_value", "get_value", "transfer", "deposit"}
  \/ tx.fn = "set_value" /\ (tx.p_key = "none" \/ tx.p_value = "none")
  \/ tx.fn = "get_value" /\ tx.p_key \notin DOMAIN c.store
  \/ tx.fn = "transfer" /\ ~(c.balance >= tx.p_amount /\ tx.p_amount > 0)

\* r, returned by execute for call tx of contract c, is a result with a
\* boolean success that is false for a failing call, which changed nothing
ReportsFailure(c, tx, r) ==
  /\ r.kind \in {"success", "failure"}
  /\ ExpectedFailure(c, tx) => r.kind = "failure"
  /\ (r.kind = "failure") => r.contract = c

\* the mempool mp holds one call of a deployed contract, valid for the state
OneValidCall(mp) ==
  /\ Len(mp) = 1
  /\ mp[1].ttype = "contract_call"
  /\ mp[1].contract \in contracts
  /\ _is_valid_transaction_for_state(mp[1], state, contracts)

(***************************************************************************)
(* C31.  When the node mines a block on a mempool that holds one valid     *)
(* call of a deployed contract, execute returns for that call a result     *)
(* with a boolean success, false for an unknown function name and for a    *)
(* failing call (set_value without key or value, get_value of an absent    *)
(* key), a result with success false comes with the contract's store and   *)
(* balance unchanged, and the block is committed.                          *)
(***************************************************************************)
C31_FailingCallReportedAndBlockCommitted ==
  [][ (last'.op = "mine" /\ OneValidCall(current_transactions))
        => /\ ReportsFailure(heap[current_transactions[1].contract],
                             current_transactions[1],
                             execute(heap[current_transactions[1].contract],
                                     current_transactions[1]))
           /\ last'.result = "ok"
    ]_vars

\* the sum of the balances of the balance map st
TotalBalance(st) == SumOver(st, DOMAIN st)

\* a transfer call tx pays out of the balance of its contract in
\* environment e
PaysOut(tx, e) ==
  /\ tx.contract \in e.contracts
  /\ execute(e.heap[tx.contract], tx).kind = "success"
  /\ execute(e.heap[tx.contract], tx).transfer

\* what transaction tx, applied in environment e, adds to the total by the
\* account of the specification: a coinbase its amount, a call the transfer
\* its contract pays out, less the fee burned by a deployment or a call
AccountedChange(tx, e) ==
  CASE ~HasTransactionType(tx) ->
         IF tx.sender = Coinbase THEN tx.amount ELSE 0
    [] tx.ttype = "contract_deploy" -> 0 - transaction_fee
    [] tx.ttype = "contract_call" ->
         (IF PaysOut(tx, e) THEN tx.p_amount ELSE 0) - transaction_fee
    [] OTHER -> 0

\* the same for the transactions txs of a block applied from left to right
RECURSIVE AccountedChanges(_, _)
AccountedChanges(txs, e) ==
  IF Len(txs) = 0 THEN 0
  ELSE AccountedChange(Head(txs), e)
       + AccountedChanges(Tail(txs), _update_state_with_transaction(Head(txs), e))

(***************************************************************************)
(* C32.  When a mined block is accepted, the sum of all balances changes   *)
(* by the coinbase amount plus the transfers the called contracts pay out  *)
(* of their balances minus the fees burned.                                *)
(***************************************************************************)
C32_TotalChangesByCoinbaseTransfersAndFees ==
  [][ (last'.op = "mine" /\ last'.result = "ok")
        => TotalBalance(state') - TotalBalance(state) =
             AccountedChanges(chain'[Len(chain')].transactions,
                Env(TRUE, state, contracts,
                    _validate_new_block(chain'[Len(chain')]).heap))
    ]_vars

(***************************************************************************)
(* C33.  For every block of the chain, EnhancedBlock.from_dict succeeds on *)
(* the dictionary to_dict makes of the block and gives a block equal to    *)
(* it in every header field, in its list of transactions, in merkle_root   *)
(* and in hash.                                                            *)
(***************************************************************************)
C33_BlockRoundTrips ==
  \A i \in 1..Len(chain) :
    /\ BlockFromDictOk(BlockToDict(chain[i]))
    /\ BlockFromDict(BlockToDict(chain[i])) = chain[i]

\* _rebuild_state on chain c, run again after a run that left once, gives
\* the balance map of that run
SameBalancesAgain(c, once) == _rebuild_state(c, once.heap).state = once.state

(***************************************************************************)
(* C34.  In every reachable state, running _rebuild_state on the chain     *)
(* twice in a row gives the same balance map as running it once.           *)
(***************************************************************************)
C34_RebuildIsIdempotent ==
  SameBalancesAgain(chain, _rebuild_state(chain, heap))

\* block dictionary d, which from_dict converts, does not extend the tip of
\* the chain
OffTip(d) ==
  /\ BlockFromDictOk(d)
  /\ \/ d.index # Len(chain)
     \/ d.previous_hash # chain[Len(chain)].hash

C36_DepositCreditsValueOnce ==
  [][ (/\ last'.op = "mine"
       /\ last'.result = "ok"
       /\ OneValidCall(current_transactions)
       /\ current_transactions[1].fn = "deposit")
        => /\ heap'[current_transactions[1].contract].balance =
                heap[current_transactions[1].contract].balance
                  + current_transactions[1].amount
           /\ state'[current_transactions[1].sender] =
                state[current_transactions[1].sender]
                  - (current_transactions[1].amount + transaction_fee)
    ]_vars

(***************************************************************************)
(* C37.  A run of _cleanup_old_messages on a seen set whose message ids    *)
(* all carry a numeric time stamp removes every id stamped more than       *)
(* MessageRetention seconds ago and keeps every other id, whatever the     *)
(* sender ids of the recorded message ids are.                             *)
(***************************************************************************)
C37_CleanupRemovesExactlyTheOld ==
  [][ (/\ last'.op = "_cleanup_old_messages"
       /\ \A msg_id \in seen_messages : msg_id.numeric)
        => seen_messages' =
             { msg_id \in seen_messages :
                 ~(now - msg_id.stamp > MessageRetention) }
    ]_vars

\* the last request of /mine was refused for a transaction of the mempool
RefusedMine ==
  /\ last.op = "mine"
  /\ last.result = "Invalid block created"
  /\ last.detail = "Invalid transaction"

\* the last request of /mine committed a block
CommittedMine == last.op = "mine" /\ last.result = "ok"

NewBlockFinishes == pending_block # <<>> /\ pending_block' = <<>>

\* the transaction with identifier txid is in the block this step committed
InCommittedBlock(txid) ==
  /\ last'.result = "ok"
  /\ txid \in TxIds(chain'[Len(chain')].transactions)

(***************************************************************************)
(* C39.  When new_block finishes, every transaction that was in the        *)
(* mempool, the ones appended while it was in progress included, is in the *)
(* committed block or still in the mempool.                                *)
(***************************************************************************)
C39_NothingDiscardedUnmined ==
  [][ NewBlockFinishes
        => \A txid \in TxIds(current_transactions) :
             \/ InCommittedBlock(txid)
             \/ txid \in TxIds(current_transactions') ]_vars

\* tx carries a signature made with the key of the wallet whose address is
\* the address it debits
SignedBySender(tx) == tx.form = "obj" /\ tx.sig = "sender"

\* new_transaction admitted the last transaction of the mempool with this step
AdmitsTransaction == last'.op = "new_transaction" /\ last'.result = "ok"

(***************************************************************************)
(* C40.  A transaction that debits an address other than the coinbase      *)
(* sender passes _is_valid_transaction_for_state, and so is admitted by    *)
(* new_transaction, only if it is signed with the key of that address.     *)
(***************************************************************************)
C40_OnlySignedBySenderAdmitted ==
  [][ AdmitsTransaction
        => \/ Admitted(current_transactions').sender = Coinbase
           \/ SignedBySender(Admitted(current_transactions')) ]_vars

====
